---- MODULE Spec2Model ----
(***************************************************************************)
(* A model of pyspector: the debounced search box (SearchEdit), the        *)
(* configuration object (Config), the line-by-line Python syntax           *)
(* highlighter (PythonSyntaxHighlighter), the tree model with its chained  *)
(* filter proxies (MainModel) and the window that ties them together with  *)
(* its check boxes, tree view and detail pane (MainWindow).                *)
(*                                                                         *)
(* Text is modelled as sequences of one-character strings, so that the     *)
(* regular expressions of the code can be evaluated character by           *)
(* character.                                                              *)
(***************************************************************************)
EXTENDS Integers, Sequences, FiniteSets, TLC

VARIABLES
    \* ---- SearchEdit ----
    seText,          \* the text of the line edit
    timerActive,     \* QTimer.isActive()
    timerElapsed,    \* ms since the timer was started (meaningful while active)
    sinceChange,     \* ms since the most recent textChanged, -1 before the first
    emitted,         \* delayedTextChanged emissions since the most recent change
    lastEmitAge,     \* sinceChange at the most recent emission, -1 if none
    prevGap,         \* ms between the two most recent changes, -1 if fewer than two
    emittedInGap,    \* emissions that happened between the two most recent changes
    \* ---- Config ----
    cfgFile,         \* the content of the configuration file
    config,          \* the five options held by the Config object
    lastCall,        \* the most recent setter call: option, value, write outcome, raised
    reloaded,        \* a new Config constructed from the same filename, or NoConfig
    \* ---- PythonSyntaxHighlighter ----
    hlPc,            \* "ready": the current block awaits highlightBlock; "done": it ran
    hlPrevState,     \* previousBlockState() of the current block
    hlText,          \* the text of the current block
    hlState,         \* currentBlockState() of the current block
    hlFormats,       \* the format (a role of STYLES, or "none") of each character
    hlMatches,       \* the tokens self._code.finditer found in the current block
    \* ---- the block state of one opening line, decoded and encoded again ----
    rtPc,            \* "input", "encoded", "decoded" or "reencoded"
    rtPrefix,        \* the prefix of the string literal that the line opens
    rtQuote,         \* its opening quote
    rtLine,          \* the line: prefix, quote and what follows
    rtMatch,         \* the unclosed string the lexer found on the line
    rtState,         \* the block state of the line
    rtInitialQuote,  \* _getInitialQuoteFromBlockState(rtState)
    rtMatches2,      \* the tokens the lexer finds in rtInitialQuote
    rtState2,        \* the block state encoded from them
    \* ---- MainModel ----
    searchText,                \* self._searchText
    matchCase,                 \* self._matchCase
    includePrivateMembers,     \* self._includePrivateMembers
    includeInheritedMembers,   \* self._includeInheritedMembers
    sortByType,                \* self._sortByType
    treeModel,                 \* the top-level rows of self._treeModel
    intermediateRegEx,         \* the filter of self._intermediateTreeModel
    secondIntermediateRegEx,   \* the filter of self._secondIntermediateTreeModel
    filterFixedString,         \* the filter of self._filteredTreeModel
    filterCaseSensitivity,     \* its case sensitivity, 0 or 1
    moduleNamesArg,            \* the list of the latest call of setModuleNames
    findCall,                  \* the latest call of findItemByName or findItemById
    findResult,                \* the index it returned
    \* ---- MainWindow ----
    checkState,      \* the check state of each of the four check boxes
    selection,       \* the item of the row selected in the tree view, or NoSelection
    dialog,          \* "open" while the module selection dialog is shown, else "closed"
    linkCall,        \* the link _linkClicked is handling, or NoLink
    opened,          \* what it asked the system to open, or NoOpen
    infoItem,        \* the item _displayInfo was called with
    infoHtml         \* the HTML it gave the text browser

seVars == <<seText, timerActive, timerElapsed, sinceChange, emitted, lastEmitAge,
            prevGap, emittedInGap>>

cfgVars == <<cfgFile, config, lastCall, reloaded>>

hlVars == <<hlPc, hlPrevState, hlText, hlState, hlFormats, hlMatches>>

rtVars == <<rtPc, rtPrefix, rtQuote, rtLine, rtMatch, rtState, rtInitialQuote, rtMatches2,
            rtState2>>

mmVars == <<searchText, matchCase, includePrivateMembers, includeInheritedMembers, sortByType,
            treeModel, intermediateRegEx, secondIntermediateRegEx, filterFixedString,
            filterCaseSensitivity, moduleNamesArg>>

findVars == <<findCall, findResult>>

winVars == <<checkState, selection, dialog, linkCall, opened>>

infoVars == <<infoItem, infoHtml>>

vars == <<seVars, cfgVars, hlVars, rtVars, mmVars, findVars, winVars, infoVars>>

(***************************************************************************)
(* Bounds of the model.                                                    *)
(***************************************************************************)
\* Time passes in steps of TickMs milliseconds.
TickMs == 100
\* The clock that measures the time since the last change stops here.
MaxClock == 1200
\* The longest search text typed.
MaxSearchLen == 2
\* The most pieces (see LinePieces) in a line given to the highlighter.
MaxPieces == 3

Max(a, b) == IF a > b THEN a ELSE b

(***************************************************************************)
(* SearchEdit                                                              *)
(***************************************************************************)
\* self._timer.setInterval(500)
Interval == 500

\* self._timer.setSingleShot(True)
SingleShot == TRUE

\* The keys the user presses: printable characters and Escape.
TypedChars == {"a", "_"}
Keys == TypedChars \cup {"Escape"}

SEInit ==
    /\ seText = <<>>
    /\ timerActive = FALSE
    /\ timerElapsed = 0
    /\ sinceChange = -1
    /\ emitted = 0
    /\ lastEmitAge = -1
    /\ prevGap = -1
    /\ emittedInGap = 0

\* A variant of _restartTimer that starts the timer only when it is not running.
RestartTimerNoStop ==
    /\ timerActive' = TRUE
    /\ timerElapsed' = IF timerActive THEN timerElapsed ELSE 0

\* SearchEdit._restartTimer: stop() then start() of the single-shot timer.
RestartTimer ==
    /\ timerActive' = TRUE
    /\ timerElapsed' = 0

\* The textChanged signal of the line edit, connected to _restartTimer.
TextChanged(newText) ==
    /\ seText' = newText
    /\ RestartTimer
    /\ prevGap' = sinceChange
    /\ emittedInGap' = emitted
    /\ sinceChange' = 0
    /\ emitted' = 0
    /\ UNCHANGED lastEmitAge

\* SearchEdit.keyPressEvent: Escape clears the text (textChanged is emitted only
\* when the text was not empty), any other key goes to QLineEdit.
KeyPressEvent(key) ==
    IF key = "Escape"
    THEN IF seText = <<>>
         THEN UNCHANGED seVars
         ELSE TextChanged(<<>>)
    ELSE /\ Len(seText) < MaxSearchLen
         /\ TextChanged(Append(seText, key))

\* TickMs milliseconds pass.
Tick ==
    /\ sinceChange >= 0
    /\ sinceChange + TickMs <= MaxClock
    /\ sinceChange' = sinceChange + TickMs
    /\ timerElapsed' = IF timerActive THEN timerElapsed + TickMs ELSE timerElapsed
    /\ UNCHANGED <<seText, timerActive, emitted, lastEmitAge, prevGap, emittedInGap>>

\* The timer's timeout signal (delayedTextChanged): it fires once the interval
\* has elapsed; a single-shot timer then stops, another one starts over.
Timeout ==
    /\ timerActive
    /\ timerElapsed >= Interval
    /\ emitted' = emitted + 1
    /\ lastEmitAge' = sinceChange
    /\ timerActive' = ~SingleShot
    /\ timerElapsed' = 0
    /\ UNCHANGED <<seText, sinceChange, prevGap, emittedInGap>>

KeyPress == \E key \in Keys : KeyPressEvent(key)

SENext ==
    \/ KeyPress
    \/ Tick
    \/ Timeout


(***************************************************************************)
(* Config                                                                  *)
(***************************************************************************)
\* Module names, as text.
BuiltinsName == <<"b", "u", "i", "l", "t", "i", "n", "s">>
ModA == <<"m">>
ModPrivate == <<"_", "p">>
ModBroken == <<"x">>
ModuleNames == {BuiltinsName, ModA, ModPrivate, ModBroken}

\* The lists of module names a caller passes (the check boxes of the module
\* dialog, gathered in row order).
ModuleLists ==
    {<<>>, <<BuiltinsName>>, <<ModA, ModPrivate>>, <<ModBroken, ModA>>}

OptionNames ==
    {"matchCase", "includePrivateMembers", "includeInheritedMembers", "sortByType",
     "moduleNames"}
BoolOptions == OptionNames \ {"moduleNames"}

\* json.dump of one value: a bool becomes the token true or false, a list of
\* strings an array of strings.
JsonEncode(key, value) ==
    IF key \in BoolOptions
    THEN (IF value THEN "true" ELSE "false")
    ELSE [i \in 1..Len(value) |-> [str |-> value[i]]]

\* json.load of one value.
JsonDecode(key, json) ==
    IF key \in BoolOptions
    THEN json = "true"
    ELSE [i \in 1..Len(json) |-> json[i].str]

\* json.dump(settings, fp) of a settings dictionary with the given keys.
JsonDump(keys, settings) == [k \in keys |-> JsonEncode(k, settings[k])]

\* The content of the file: absent (or unreadable), text that is no JSON, or a
\* JSON object.
MissingFile == [kind |-> "missing", obj |-> <<>>]
InvalidFile == [kind |-> "invalid", obj |-> <<>>]
ObjectFile(obj) == [kind |-> "object", obj |-> obj]

\* A settings dictionary in which no option has its default value.
NonDefaultSettings ==
    [matchCase |-> TRUE, includePrivateMembers |-> TRUE,
     includeInheritedMembers |-> TRUE, sortByType |-> FALSE,
     moduleNames |-> <<ModA, ModPrivate>>]

\* The files the program may find when it starts: none, garbage, or an object
\* holding any subset of the five keys.
InitialFiles ==
    {MissingFile, InvalidFile}
        \cup {ObjectFile(JsonDump(keys, NonDefaultSettings)) : keys \in SUBSET OptionNames}

\* Config.__init__ with a wrong default for sortByType.
ConfigInitSortDefaultFalse(file) ==
    LET settings == IF file.kind = "object" THEN file.obj ELSE <<>>
        Get(key, default) ==
            IF key \in DOMAIN settings THEN JsonDecode(key, settings[key]) ELSE default
    IN  [matchCase |-> Get("matchCase", FALSE),
         includePrivateMembers |-> Get("includePrivateMembers", FALSE),
         includeInheritedMembers |-> Get("includeInheritedMembers", FALSE),
         sortByType |-> Get("sortByType", FALSE),
         moduleNames |-> Get("moduleNames", <<BuiltinsName>>)]

\* Config.__init__: the settings are the file's JSON object, or {} when the file
\* cannot be opened or parsed; each option is settings.get(key, default).
ConfigInit(file) ==
    LET settings == IF file.kind = "object" THEN file.obj ELSE <<>>
        Get(key, default) ==
            IF key \in DOMAIN settings THEN JsonDecode(key, settings[key]) ELSE default
    IN  [matchCase |-> Get("matchCase", FALSE),
         includePrivateMembers |-> Get("includePrivateMembers", FALSE),
         includeInheritedMembers |-> Get("includeInheritedMembers", FALSE),
         sortByType |-> Get("sortByType", TRUE),
         moduleNames |-> Get("moduleNames", <<BuiltinsName>>)]

\* How a write of the file ends: it succeeds, open() fails (the file is left as
\* it was), or json.dump fails after open() truncated the file.
WriteOutcomes == {"ok", "openFails", "dumpFails"}

\* Config._save that forgets the moduleNames key.
SaveWithoutModuleNames(cfg, file, outcome) ==
    CASE outcome = "ok" -> ObjectFile(JsonDump(BoolOptions, cfg))
      [] outcome = "openFails" -> file
      [] outcome = "dumpFails" -> InvalidFile

\* Config._save: the file after the attempt to write all five settings.
Save(cfg, file, outcome) ==
    CASE outcome = "ok" -> ObjectFile(JsonDump(OptionNames, cfg))
      [] outcome = "openFails" -> file
      [] outcome = "dumpFails" -> InvalidFile

\* Config._save without its try/except: a failed write propagates.
SaveRaisesUncaught(outcome) == outcome # "ok"

\* Config._save: whether the call raises ("except: pass" swallows every error).
SaveRaises(outcome) == FALSE

NoConfig == [none |-> TRUE]
NoCall == [option |-> "none", outcome |-> "ok", raised |-> FALSE]

CfgInit ==
    /\ cfgFile \in InitialFiles
    /\ config = ConfigInit(cfgFile)
    /\ lastCall = NoCall
    /\ reloaded = NoConfig

\* A property setter of Config: store the value, then _save().
SetOption(option, value, outcome) ==
    /\ config' = [config EXCEPT ![option] = value]
    /\ cfgFile' = Save(config', cfgFile, outcome)
    /\ lastCall' = [option |-> option, value |-> value, outcome |-> outcome,
                    raised |-> SaveRaises(outcome)]
    /\ reloaded' = NoConfig

SetMatchCase ==
    \E v \in BOOLEAN, o \in WriteOutcomes : SetOption("matchCase", v, o)

SetIncludePrivateMembers ==
    \E v \in BOOLEAN, o \in WriteOutcomes : SetOption("includePrivateMembers", v, o)

SetIncludeInheritedMembers ==
    \E v \in BOOLEAN, o \in WriteOutcomes : SetOption("includeInheritedMembers", v, o)

SetSortByType ==
    \E v \in BOOLEAN, o \in WriteOutcomes : SetOption("sortByType", v, o)

SetModuleNames ==
    \E v \in ModuleLists, o \in WriteOutcomes : SetOption("moduleNames", v, o)

\* A new Config is constructed from the same filename.
Reload ==
    /\ reloaded = NoConfig
    /\ reloaded' = ConfigInit(cfgFile)
    /\ UNCHANGED <<cfgFile, config, lastCall>>

CfgNext ==
    \/ SetMatchCase
    \/ SetIncludePrivateMembers
    \/ SetIncludeInheritedMembers
    \/ SetSortByType
    \/ SetModuleNames
    \/ Reload

(***************************************************************************)
(* PythonSyntaxHighlighter                                                 *)
(*                                                                         *)
(* Offsets are those of Python: the character at offset p of a text is     *)
(* text[p + 1], and a span [start, end) excludes its end.                  *)
(*                                                                         *)
(* The texts of the model are made of quotes, the backslash, '#', curly    *)
(* braces, the space and the prefix letters of string literals.  Over      *)
(* these characters the alternatives of self._code for numbers,            *)
(* definitions, keywords, operators, decorators and self/cls match         *)
(* nothing, and neither do the todo labels inside comments.                *)
(***************************************************************************)
SQ == "'"
DQ == "\""
BS == "\\"

\* str.lower() of one character.
Lower(c) ==
    CASE c = "B" -> "b"
      [] c = "F" -> "f"
      [] c = "R" -> "r"
      [] c = "U" -> "u"
      [] OTHER -> c

\* The character at an offset, "" at and beyond the end.
At(text, p) == IF p >= 0 /\ p < Len(text) THEN text[p + 1] ELSE ""

\* text.startswith(q, p)
StartsWith(text, p, q) ==
    /\ p + Len(q) <= Len(text)
    /\ \A i \in 1..Len(q) : text[p + i] = q[i]

\* text[start:end]
Slice(text, start, end) == [i \in 1..(end - start) |-> text[start + i]]

\* The stringStart alternatives (three single quotes, three double quotes, one
\* single quote, one double quote) tried in the order of the pattern; <<>> when
\* none matches at p.
QuoteAt(text, p) ==
    CASE StartsWith(text, p, <<SQ, SQ, SQ>>) -> <<SQ, SQ, SQ>>
      [] StartsWith(text, p, <<DQ, DQ, DQ>>) -> <<DQ, DQ, DQ>>
      [] StartsWith(text, p, <<SQ>>) -> <<SQ>>
      [] StartsWith(text, p, <<DQ>>) -> <<DQ>>
      [] OTHER -> <<>>

\* The body and end of a string literal, [^\\]*?(?:\\.[^\\]*?)*? followed by
\* (?P=stringStart)|\\?$, from offset p on: the lazy body grows one character,
\* or one backslash pair, at a time until the end alternative matches.  The
\* result is the end of the match and the text of the end group.
RECURSIVE StringEnd(_, _, _)
StringEnd(text, p, quote) ==
    IF StartsWith(text, p, quote)
    THEN [end |-> p + Len(quote), endText |-> quote]
    ELSE IF p >= Len(text)
    THEN [end |-> Len(text), endText |-> <<>>]
    ELSE IF At(text, p) = BS
    THEN IF p + 1 = Len(text)
         THEN [end |-> p + 1, endText |-> <<BS>>]
         ELSE StringEnd(text, p + 2, quote)
    ELSE StringEnd(text, p + 1, quote)

NoMatch == [role |-> "none"]

\* A match of the string or rawString alternative whose prefix ends at qpos.
StringMatch(role, text, p, qpos) ==
    LET quote == QuoteAt(text, qpos)
        e == StringEnd(text, qpos + Len(quote), quote)
    IN  [role |-> role, start |-> p, end |-> e.end, prefix |-> Slice(text, p, qpos),
         quote |-> quote, endText |-> e.endText]

\* The string alternative at p: prefix [BbFfUu]?, then a quote.
MatchString(text, p) ==
    IF At(text, p) \in {"B", "b", "F", "f", "U", "u"} /\ QuoteAt(text, p + 1) # <<>>
    THEN StringMatch("string", text, p, p + 1)
    ELSE IF QuoteAt(text, p) # <<>>
    THEN StringMatch("string", text, p, p)
    ELSE NoMatch

\* The rawString alternative at p: prefix [Rr][BbFf]?|[BbFf][Rr], then a quote.
MatchRawString(text, p) ==
    IF At(text, p) \in {"R", "r"}
    THEN IF At(text, p + 1) \in {"B", "b", "F", "f"} /\ QuoteAt(text, p + 2) # <<>>
         THEN StringMatch("rawString", text, p, p + 2)
         ELSE IF QuoteAt(text, p + 1) # <<>>
         THEN StringMatch("rawString", text, p, p + 1)
         ELSE NoMatch
    ELSE IF /\ At(text, p) \in {"B", "b", "F", "f"}
            /\ At(text, p + 1) \in {"R", "r"}
            /\ QuoteAt(text, p + 2) # <<>>
    THEN StringMatch("rawString", text, p, p + 2)
    ELSE NoMatch

\* A token of one kind that spans [p, end).
PlainMatch(role, p, end) ==
    [role |-> role, start |-> p, end |-> end, prefix |-> <<>>, quote |-> <<>>,
     endText |-> <<>>]

\* self._code at offset p: the alternatives comment, string, rawString, ...,
\* brace in the order of the pattern.
MatchAt(text, p) ==
    LET string == MatchString(text, p)
        rawString == MatchRawString(text, p)
    IN  IF At(text, p) = "#"
        THEN PlainMatch("comment", p, Len(text))
        ELSE IF string # NoMatch
        THEN string
        ELSE IF rawString # NoMatch
        THEN rawString
        ELSE IF At(text, p) \in {"{", "}"}
        THEN PlainMatch("brace", p, p + 1)
        ELSE NoMatch

\* self._code.finditer(text): the matches from offset p on, left to right.
RECURSIVE FindIter(_, _)
FindIter(text, p) ==
    IF p >= Len(text)
    THEN <<>>
    ELSE LET m == MatchAt(text, p)
         IN  IF m = NoMatch
             THEN FindIter(text, p + 1)
             ELSE <<m>> \o FindIter(text, m.end)

\* PythonSyntaxHighlighter._escapedCharacters
EscapedCharacters == {BS, SQ, DQ, "a", "b", "f", "n", "r", "t", "v"}
HexDigits == {"a", "b", "f", "A", "B", "F"}

\* The length of the escapeSequence match at offset p of text[:end], 0 when
\* there is none: a backslash and an escaped character, \uXXXX or \UXXXXXXXX.
EscapeLenAt(text, p, end) ==
    IF At(text, p) # BS \/ p + 1 >= end
    THEN 0
    ELSE IF At(text, p + 1) \in EscapedCharacters
    THEN 2
    ELSE IF /\ At(text, p + 1) = "u"
            /\ p + 6 <= end
            /\ \A i \in 2..5 : At(text, p + i) \in HexDigits
    THEN 6
    ELSE IF /\ At(text, p + 1) = "U"
            /\ p + 10 <= end
            /\ \A i \in 2..9 : At(text, p + i) \in HexDigits
    THEN 10
    ELSE 0

\* The spans of the escapeSequence subpattern found by finditer(text, p, end).
RECURSIVE EscapeSpans(_, _, _)
EscapeSpans(text, p, end) ==
    IF p >= end
    THEN <<>>
    ELSE LET n == EscapeLenAt(text, p, end)
         IN  IF n = 0
             THEN EscapeSpans(text, p + 1, end)
             ELSE <<[start |-> p, end |-> p + n]>> \o EscapeSpans(text, p + n, end)

\* The first offset in [p, end) that holds the character c, end when none does.
RECURSIVE IndexOf(_, _, _, _)
IndexOf(text, c, p, end) ==
    IF p >= end THEN end
    ELSE IF At(text, p) = c THEN p
    ELSE IndexOf(text, c, p + 1, end)

\* The spans of the group formattedReplacement found by
\* self._formattedReplacementSubpattern.finditer(text, p, end): the pattern
\* \{\{|\}\}|(?P<formattedReplacement>\{.*?\}) skips doubled braces and matches
\* from an opening brace to the first closing brace.
RECURSIVE ReplacementSpans(_, _, _)
ReplacementSpans(text, p, end) ==
    IF p >= end
    THEN <<>>
    ELSE IF /\ p + 2 <= end
            /\ (StartsWith(text, p, <<"{", "{">>) \/ StartsWith(text, p, <<"}", "}">>))
    THEN ReplacementSpans(text, p + 2, end)
    ELSE IF At(text, p) = "{" /\ IndexOf(text, "}", p + 1, end) < end
    THEN LET close == IndexOf(text, "}", p + 1, end)
         IN  <<[start |-> p, end |-> close + 1]>> \o ReplacementSpans(text, close + 1, end)
    ELSE ReplacementSpans(text, p + 1, end)

\* QSyntaxHighlighter.setFormat(start, count, format) on the formats of a block.
SetFormat(formats, start, count, format) ==
    [i \in 1..Len(formats) |->
        IF start >= 0 /\ i - 1 >= start /\ i - 1 < start + count THEN format ELSE formats[i]]

\* _highlightSubpattern: every span gets the format of the subrole, clamped to
\* the block.
RECURSIVE HighlightSpans(_, _, _, _)
HighlightSpans(formats, spans, offset, subrole) ==
    IF spans = <<>>
    THEN formats
    ELSE LET clampedStart == Max(0, spans[1].start - offset)
             clampedEnd == Max(0, spans[1].end - offset)
         IN  HighlightSpans(SetFormat(formats, clampedStart, clampedEnd - clampedStart, subrole),
                            Tail(spans), offset, subrole)

\* Whether c occurs in the lower-cased prefix of a match.
InPrefix(c, match) == \E i \in 1..Len(match.prefix) : Lower(match.prefix[i]) = c

\* _getBlockStateFromStringMatch that never sets the bit of a long string.
GetBlockStateNoLongBit(match) ==
    (IF match.quote[1] = DQ THEN 1 ELSE 0)
        + (IF InPrefix("b", match) THEN 4 ELSE 0)
        + (IF InPrefix("f", match) THEN 8 ELSE 0)
        + (IF InPrefix("r", match) THEN 16 ELSE 0)

\* _getBlockStateFromStringMatch: the bits are disjoint, so | is +.
GetBlockStateFromStringMatch(match) ==
    (IF match.quote[1] = DQ THEN 1 ELSE 0)
        + (IF Len(match.quote) = 3 THEN 2 ELSE 0)
        + (IF InPrefix("b", match) THEN 4 ELSE 0)
        + (IF InPrefix("f", match) THEN 8 ELSE 0)
        + (IF InPrefix("r", match) THEN 16 ELSE 0)

\* state & bit, for a bit that is a power of two.
HasBit(state, bit) == (state \div bit) % 2 = 1

\* _getInitialQuoteFromBlockState that leaves out the prefix letters.
GetInitialQuoteWithoutPrefix(state) ==
    IF state < 0
    THEN <<>>
    ELSE LET q == IF HasBit(state, 1) THEN DQ ELSE SQ
         IN  (IF HasBit(state, 2) THEN <<q, q, q>> ELSE <<q>>) \o <<" ">>

\* _getInitialQuoteFromBlockState
GetInitialQuoteFromBlockState(state) ==
    IF state < 0
    THEN <<>>
    ELSE LET q == IF HasBit(state, 1) THEN DQ ELSE SQ
             quote == IF HasBit(state, 2) THEN <<q, q, q>> ELSE <<q>>
         IN  (IF HasBit(state, 16) THEN <<"r">> ELSE <<>>)
                 \o (IF HasBit(state, 8) THEN <<"f">> ELSE <<>>)
                 \o (IF HasBit(state, 4) THEN <<"b">> ELSE <<>>)
                 \o quote \o <<" ">>

\* The part of highlightBlock that handles one match: format the span of its
\* role, then its subpatterns, then note an unclosed string.  hl holds the
\* formats and the block state so far.
HighlightMatch(hl, text, offset, match) ==
    LET isString == match.role \in {"string", "rawString"}
        clampedStart == Max(0, match.start - offset)
        clampedEnd == Max(0, match.end - offset)
        f1 == SetFormat(hl.formats, clampedStart, clampedEnd - clampedStart, match.role)
        f2 == IF match.role = "string"
              THEN HighlightSpans(f1, EscapeSpans(text, match.start, match.end), offset,
                                  "escapeSequence")
              ELSE f1
        f3 == IF isString /\ InPrefix("f", match)
              THEN HighlightSpans(f2, ReplacementSpans(text, match.start, match.end), offset,
                                  "formattedReplacement")
              ELSE f2
        unclosed == isString /\ match.end = Len(text) /\ match.endText # match.quote
    IN  [formats |-> f3,
         state |-> IF unclosed THEN GetBlockStateFromStringMatch(match) ELSE hl.state]

RECURSIVE HighlightMatches(_, _, _, _)
HighlightMatches(hl, text, offset, matches) ==
    IF matches = <<>>
    THEN hl
    ELSE HighlightMatches(HighlightMatch(hl, text, offset, matches[1]), text, offset,
                          Tail(matches))

\* highlightBlock without its setCurrentBlockState(-1).
HighlightBlockResultNoReset(previousBlockState, line) ==
    LET initialQuote == GetInitialQuoteFromBlockState(previousBlockState)
        text == initialQuote \o line
        offset == Len(initialQuote)
        matches == FindIter(text, 0)
        hl == HighlightMatches([formats |-> [i \in 1..Len(line) |-> "none"],
                                state |-> previousBlockState], text, offset, matches)
    IN  [formats |-> hl.formats, state |-> hl.state, matches |-> matches]

\* highlightBlock: the formats and the block state of a line, from its text and
\* the state of the block before it.
HighlightBlockResult(previousBlockState, line) ==
    LET initialQuote == GetInitialQuoteFromBlockState(previousBlockState)
        text == initialQuote \o line
        offset == Len(initialQuote)
        matches == FindIter(text, 0)
        hl == HighlightMatches([formats |-> [i \in 1..Len(line) |-> "none"],
                                state |-> -1], text, offset, matches)
    IN  [formats |-> hl.formats, state |-> hl.state, matches |-> matches]

\* The lines given to the highlighter are made of these pieces: the four
\* quotes, the backslash, '#', the prefix letters and the curly braces.
LinePieces ==
    {<<SQ>>, <<DQ>>, <<SQ, SQ, SQ>>, <<DQ, DQ, DQ>>, <<BS>>, <<"#">>, <<"r">>, <<"b">>,
     <<"f">>, <<"{">>, <<"}">>}

RECURSIVE Concatenations(_, _)
Concatenations(S, n) ==
    IF n = 0
    THEN {<<>>}
    ELSE LET shorter == Concatenations(S, n - 1)
         IN  shorter \cup {t \o piece : t \in shorter, piece \in S}

Lines == Concatenations(LinePieces, MaxPieces)

\* The first block of a document: there is no previous block, and Qt reports -1.
HLInit ==
    /\ hlPc = "ready"
    /\ hlPrevState = -1
    /\ hlText = <<>>
    /\ hlState = -1
    /\ hlFormats = <<>>
    /\ hlMatches = <<>>

\* Qt calls highlightBlock(text) for the current block.
HighlightBlock ==
    /\ hlPc = "ready"
    /\ \E line \in Lines :
        LET r == HighlightBlockResult(hlPrevState, line)
        IN  /\ hlText' = line
            /\ hlState' = r.state
            /\ hlFormats' = r.formats
            /\ hlMatches' = r.matches
    /\ hlPc' = "done"
    /\ UNCHANGED hlPrevState

\* Qt moves on to the next block, whose previous block state is the state just
\* set; a block that was never highlighted has state -1.
NextBlock ==
    /\ hlPc = "done"
    /\ hlPc' = "ready"
    /\ hlPrevState' = hlState
    /\ hlText' = <<>>
    /\ hlState' = -1
    /\ hlFormats' = <<>>
    /\ hlMatches' = <<>>

HLNext ==
    \/ HighlightBlock
    \/ NextBlock

(***************************************************************************)
(* The block state of an opening line, decoded and encoded again           *)
(***************************************************************************)
\* Every way to write a prefix in upper and lower case.
RECURSIVE CaseVariants(_)
CaseVariants(prefix) ==
    IF prefix = <<>>
    THEN {<<>>}
    ELSE LET upper == CASE prefix[1] = "b" -> "B"
                        [] prefix[1] = "f" -> "F"
                        [] prefix[1] = "r" -> "R"
                        [] prefix[1] = "u" -> "U"
         IN  {<<c>> \o rest : c \in {prefix[1], upper}, rest \in CaseVariants(Tail(prefix))}

\* The prefixes of string literals the patterns accept.
StringPrefixes ==
    UNION {CaseVariants(p) :
            p \in {<<>>, <<"u">>, <<"b">>, <<"f">>, <<"r">>, <<"r", "b">>, <<"b", "r">>,
                   <<"r", "f">>, <<"f", "r">>}}

Quotes == {<<SQ>>, <<DQ>>, <<SQ, SQ, SQ>>, <<DQ, DQ, DQ>>}

\* What follows the opening quote on the line: nothing, or text that does not
\* close the string.
OpeningTails == {<<>>, <<" ", "#", "b">>}

\* A line that opens no string.
NoStringLines == {<<>>, <<"#", SQ>>, <<"r", "b">>}

RTInit ==
    /\ rtPc = "input"
    /\ \/ /\ rtPrefix \in StringPrefixes
          /\ rtQuote \in Quotes
          /\ \E tail \in OpeningTails : rtLine = rtPrefix \o rtQuote \o tail
       \/ /\ rtPrefix = <<>>
          /\ rtQuote = <<>>
          /\ rtLine \in NoStringLines
    /\ rtMatch = NoMatch
    /\ rtState = -1
    /\ rtInitialQuote = <<>>
    /\ rtMatches2 = <<>>
    /\ rtState2 = -1

\* No opening line is under study.
RTIdle ==
    /\ rtPc = "input"
    /\ rtPrefix = <<>>
    /\ rtQuote = <<>>
    /\ rtLine = <<>>
    /\ rtMatch = NoMatch
    /\ rtState = -1
    /\ rtInitialQuote = <<>>
    /\ rtMatches2 = <<>>
    /\ rtState2 = -1

\* highlightBlock on the opening line, as the first block of a document: the
\* state comes from _getBlockStateFromStringMatch when the line ends in an
\* unclosed string.
RTEncode ==
    /\ rtPc = "input"
    /\ LET r == HighlightBlockResult(-1, rtLine)
       IN  /\ rtMatch' = IF r.matches = <<>> THEN NoMatch ELSE r.matches[Len(r.matches)]
           /\ rtState' = r.state
    /\ rtPc' = "encoded"
    /\ UNCHANGED <<rtPrefix, rtQuote, rtLine, rtInitialQuote, rtMatches2, rtState2>>

\* highlightBlock on the next block starts with _getInitialQuoteFromBlockState.
RTDecode ==
    /\ rtPc = "encoded"
    /\ rtInitialQuote' = GetInitialQuoteFromBlockState(rtState)
    /\ rtPc' = "decoded"
    /\ UNCHANGED <<rtPrefix, rtQuote, rtLine, rtMatch, rtState, rtMatches2, rtState2>>

\* The lexer runs over the initial quote (the next block being an empty line)
\* and the state is encoded again.
RTReencode ==
    /\ rtPc = "decoded"
    /\ LET r == HighlightBlockResult(rtState, <<>>)
       IN  /\ rtMatches2' = r.matches
           /\ rtState2' = r.state
    /\ rtPc' = "reencoded"
    /\ UNCHANGED <<rtPrefix, rtQuote, rtLine, rtMatch, rtState, rtInitialQuote>>

RTNext ==
    \/ RTEncode
    \/ RTDecode
    \/ RTReencode

(***************************************************************************)
(* MainModel                                                               *)
(*                                                                         *)
(* The tree model is a sequence of rows; a row holds the text of its three *)
(* columns (name, type, inheritance), the id and error of its data and its *)
(* child rows.  The modules a program can import are a small fixed world.  *)
(***************************************************************************)
ModCyclic == <<"c">>
InheritedText == <<"i", "n", "h", "e", "r", "i", "t", "e", "d">>
ImportErrorText == "Could not import module."

\* ---- the objects that inspect shows ----
\* kind is what inspect tells of the value: "module", "class", "routine",
\* "property" (an instance of property), "descriptor" (any other data
\* descriptor) or "other".
Value(kind) ==
    [kind |-> kind, abstract |-> FALSE, members |-> <<>>, dict |-> {}, same |-> FALSE,
     raises |-> FALSE, hasSignature |-> FALSE, signature |-> <<>>,
     fget |-> FALSE, fset |-> FALSE, fdel |-> FALSE]

Member(name, value) == [name |-> name, value |-> value]

\* A function whose signature inspect can tell.
Function(signature) ==
    [Value("routine") EXCEPT !.hasSignature = TRUE, !.signature = signature]

\* A routine for which inspect.signature raises.
Builtin == Value("routine")

Property(fget, fset, fdel) ==
    [Value("property") EXCEPT !.fget = fget, !.fset = fset, !.fdel = fdel]

\* A class: inspect.getmembers(cls), in its order, and the names in cls.__dict__.
Class(members, dict) == [Value("class") EXCEPT !.members = members, !.dict = dict]

Module(members) == [Value("module") EXCEPT !.members = members]

SelfSignature == <<"(", "s", "e", "l", "f", ")">>
DocName == <<"_", "_", "d", "o", "c", "_", "_">>
ClassName == <<"_", "_", "c", "l", "a", "s", "s", "_", "_">>
EqName == <<"_", "_", "e", "q", "_", "_">>

\* class N, nested in C and holding a reference to itself.
ClassN ==
    Class(<<Member(ClassName, Class(<<>>, {})),
            Member(DocName, Value("other")),
            Member(<<"m", "e">>, [Value("class") EXCEPT !.same = TRUE])>>,
          {DocName, <<"m", "e">>})

\* class C(Base): f, _h, p and N are its own, __eq__, g and q are inherited.
ClassC ==
    Class(<<Member(<<"N">>, ClassN),
            Member(ClassName, Class(<<>>, {})),
            Member(DocName, Value("other")),
            Member(EqName, Builtin),
            Member(<<"_", "h">>, Function(SelfSignature)),
            Member(<<"f">>, Function(SelfSignature)),
            Member(<<"g">>, Function(SelfSignature)),
            Member(<<"p">>, Property(TRUE, FALSE, FALSE)),
            Member(<<"q">>, Property(TRUE, TRUE, FALSE))>>,
          {<<"N">>, DocName, <<"_", "h">>, <<"f">>, <<"p">>})

\* class _D: a private class with a public method and an inherited one.
ClassD ==
    Class(<<Member(ClassName, Class(<<>>, {})),
            Member(EqName, Builtin),
            Member(<<"f">>, Function(SelfSignature))>>,
          {<<"f">>})

\* module m
ModuleA ==
    Module(<<Member(<<"C">>, ClassC),
             Member(<<"_", "D">>, ClassD),
             Member(DocName, Value("other")),
             Member(<<"_", "v">>, Value("other")),
             Member(<<"f">>, Function(<<"(", ")">>)),
             Member(<<"o", "s">>, Value("module"))>>)

\* module _p
ModuleP == Module(<<Member(DocName, Value("other")), Member(<<"g">>, Function(<<"(", ")">>))>>)

\* module builtins, cut down to one abstract class, one class with a data
\* descriptor and one function.
ModuleBuiltins ==
    Module(<<Member(<<"A">>, [Class(<<Member(<<"f">>, Function(SelfSignature))>>, {<<"f">>})
                               EXCEPT !.abstract = TRUE]),
             Member(DocName, Value("other")),
             Member(<<"a", "b", "s">>, Function(<<"(", "x", ",", " ", "/", ")">>)),
             Member(<<"i", "n", "t">>,
                    Class(<<Member(DocName, Value("other")),
                            Member(<<"r", "e", "a", "l">>, Value("descriptor"))>>,
                          {DocName, <<"r", "e", "a", "l">>}))>>)

\* module c: inspecting its class B raises, after the row of B was added and
\* before the row of z.
ModuleC ==
    Module(<<Member(<<"B">>, [Class(<<>>, {}) EXCEPT !.raises = TRUE]),
             Member(<<"z">>, Function(<<"(", ")">>))>>)

\* importlib.import_module: the modules that can be imported.
ImportableModules == {ModA, ModPrivate, BuiltinsName, ModCyclic}

ImportModule(moduleName) ==
    CASE moduleName = ModA -> ModuleA
      [] moduleName = ModPrivate -> ModuleP
      [] moduleName = BuiltinsName -> ModuleBuiltins
      [] moduleName = ModCyclic -> ModuleC

\* The lists of names setModuleNames is called with.
SelectedModuleLists ==
    ModuleLists \cup {<<ModCyclic, ModA>>, <<ModPrivate, ModBroken, ModPrivate>>}

\* The texts typed into the search box.
SearchTexts == {<<>>, <<"f">>, <<"D">>, <<"s", "e", "t">>}

\* ---- rows ----
Row(id, name, type, inheritance, error, children) ==
    [id |-> id, name |-> name, type |-> type, inheritance |-> inheritance, error |-> error,
     children |-> children]

\* _getMemberType
GetMemberType(memberValue) ==
    CASE memberValue.kind = "module" -> "module"
      [] memberValue.kind = "class" /\ memberValue.abstract -> "abstract base class"
      [] memberValue.kind = "class" -> "class"
      [] memberValue.kind = "routine" -> "function"
      [] memberValue.kind \in {"property", "descriptor"} -> "property"
      [] OTHER -> "object"

\* _parentContainsItem, over the child rows of the parent
ParentContainsItem(rows, id) == \E i \in 1..Len(rows) : rows[i].id = id

\* The rows of the getter, setter and deleter of a property.
AccessorRows(id, value) ==
    (IF value.fget
     THEN <<Row(id \o <<"/", "g", "e", "t">>, <<"[", "g", "e", "t", "]">>, "function",
                <<>>, "", <<>>)>>
     ELSE <<>>)
    \o (IF value.fset
        THEN <<Row(id \o <<"/", "s", "e", "t">>, <<"[", "s", "e", "t", "]">>, "function",
                   <<>>, "", <<>>)>>
        ELSE <<>>)
    \o (IF value.fdel
        THEN <<Row(id \o <<"/", "d", "e", "l", "e", "t", "e">>,
                   <<"[", "d", "e", "l", "e", "t", "e", "]">>, "function", <<>>, "", <<>>)>>
        ELSE <<>>)

NoRows == [children |-> <<>>, raised |-> FALSE]

\* _inspectObject: the child rows it gives the row of obj, and whether it
\* raised on the way.  InspectMembers is its loop from member k on, children
\* being the rows added so far.
RECURSIVE InspectObject(_, _), InspectMembers(_, _, _, _)
InspectObject(parentId, obj) ==
    IF obj.raises
    THEN [children |-> <<>>, raised |-> TRUE]
    ELSE InspectMembers(parentId, obj, 1, <<>>)

InspectMembers(parentId, obj, k, children) ==
    IF k > Len(obj.members)
    THEN [children |-> children, raised |-> FALSE]
    ELSE LET memberName == obj.members[k].name
             memberValue == obj.members[k].value
             memberType == GetMemberType(memberValue)
             id == parentId \o <<"/">> \o memberName
         IN  IF \/ StartsWith(memberName, 0, <<"_", "_">>) /\ memberType = "class"
                \/ memberType = "module"
                \/ ParentContainsItem(children, id)
             THEN InspectMembers(parentId, obj, k + 1, children)
             ELSE LET inheritance == IF obj.kind = "class" /\ memberName \notin obj.dict
                                     THEN InheritedText
                                     ELSE <<>>
                      name == IF memberType = "function" /\ memberValue.hasSignature
                              THEN memberName \o memberValue.signature
                              ELSE memberName
                      nested == IF memberType \in {"class", "abstract base class"}
                                   /\ ~memberValue.same
                                THEN InspectObject(id, memberValue)
                                ELSE NoRows
                      accessors == IF memberValue.kind = "property"
                                   THEN AccessorRows(id, memberValue)
                                   ELSE <<>>
                      item == Row(id, name, memberType, inheritance, "",
                                  nested.children \o accessors)
                  IN  IF nested.raised
                      THEN [children |-> Append(children, item), raised |-> TRUE]
                      ELSE InspectMembers(parentId, obj, k + 1, Append(children, item))

\* _addModule, on the rows of the invisible root item
AddModule(rows, moduleName) ==
    LET errorRow == Row(moduleName, moduleName, "module", <<>>, ImportErrorText, <<>>)
    IN  IF ParentContainsItem(rows, moduleName)
        THEN rows
        ELSE IF moduleName \notin ImportableModules
        THEN Append(rows, errorRow)
        ELSE LET inspected == InspectObject(moduleName, ImportModule(moduleName))
                 item == Row(moduleName, moduleName, "module", <<>>, "", inspected.children)
             IN  IF inspected.raised
                 THEN rows \o <<item, errorRow>>
                 ELSE Append(rows, item)

RECURSIVE AddModules(_, _)
AddModules(rows, moduleNames) ==
    IF moduleNames = <<>>
    THEN rows
    ELSE AddModules(AddModule(rows, Head(moduleNames)), Tail(moduleNames))

\* ---- sorting ----
\* The characters of names in the order of their code points.
CodePointOrder ==
    <<" ", "(", ")", ",", "/", "A", "B", "C", "D", "N", "[", "]", "_", "a", "b", "c", "d", "e",
      "f", "g", "h", "i", "l", "m", "n", "o", "p", "q", "r", "s", "t", "u", "v", "x", "z">>

CodePointRank(c) == CHOOSE i \in 1..Len(CodePointOrder) : CodePointOrder[i] = c

\* The types in the order of their texts.
TypeOrder == <<"abstract base class", "class", "function", "module", "object", "property">>

TypeRank(type) == CHOOSE i \in 1..Len(TypeOrder) : TypeOrder[i] = type

\* One text before another, compared by code points.
RECURSIVE TextLess(_, _)
TextLess(a, b) ==
    IF b = <<>>
    THEN FALSE
    ELSE IF a = <<>>
    THEN TRUE
    ELSE IF a[1] = b[1]
    THEN TextLess(Tail(a), Tail(b))
    ELSE CodePointRank(a[1]) < CodePointRank(b[1])

\* QStandardItem.operator< on the items two rows have in a column.
RowLess(column, a, b) ==
    IF column = 0 THEN TextLess(a.name, b.name) ELSE TypeRank(a.type) < TypeRank(b.type)

\* A stable sort of rows by a column.
RECURSIVE StableSort(_, _)
StableSort(rows, column) ==
    IF rows = <<>>
    THEN <<>>
    ELSE LET n == Len(rows)
             sorted == StableSort(SubSeq(rows, 1, n - 1), column)
             k == Cardinality({i \in 1..(n - 1) : ~RowLess(column, rows[n], sorted[i])})
         IN  SubSeq(sorted, 1, k) \o <<rows[n]>> \o SubSeq(sorted, k + 1, n - 1)

\* QStandardItemModel.sort(column): the rows of every parent, sorted.
RECURSIVE SortChildren(_, _)
SortChildren(rows, column) ==
    StableSort([i \in 1..Len(rows) |->
                   [rows[i] EXCEPT !.children = SortChildren(@, column)]], column)

\* _sort
Sort(rows, byType) ==
    LET byName == SortChildren(rows, 0)
    IN  IF byType THEN SortChildren(byName, 1) ELSE byName

\* ---- the three proxy models ----
ExcludePrivateRegEx == "^[^_]|^__"
IncludePrivateRegEx == ""
ExcludeInheritedRegEx == "^$"
IncludeInheritedRegEx == ""

\* QRegularExpression.match(text).hasMatch() for the three patterns in use.
RegExHasMatch(pattern, text) ==
    CASE pattern = "" -> TRUE
      [] pattern = "^[^_]|^__" ->
            \/ Len(text) >= 1 /\ text[1] # "_"
            \/ Len(text) >= 2 /\ text[1] = "_" /\ text[2] = "_"
      [] pattern = "^$" -> text = <<>>

\* The text of a row in a filter key column.
ColumnText(row, column) == IF column = 0 THEN row.name ELSE row.inheritance

\* filterAcceptsRow of a proxy with a regular expression filter that looks at the
\* name whatever the key column.
FilterAcceptsRowByName(row, pattern, column) ==
    pattern = "" \/ RegExHasMatch(pattern, row.name)

\* QSortFilterProxyModel.filterAcceptsRow of a proxy with a regular expression
\* filter: an empty pattern accepts every row.
FilterAcceptsRow(row, pattern, column) ==
    pattern = "" \/ RegExHasMatch(pattern, ColumnText(row, column))

\* The rows a proxy without recursive filtering shows: the accepted rows, with
\* the accepted rows among their children.
RECURSIVE FilterRows(_, _, _)
FilterRows(rows, pattern, column) ==
    LET Accepted(row) == FilterAcceptsRow(row, pattern, column)
        accepted == SelectSeq(rows, Accepted)
    IN  [i \in 1..Len(accepted) |->
            [accepted[i] EXCEPT !.children = FilterRows(@, pattern, column)]]

\* The folding of case, over the characters of names.
CaseFold(c) ==
    CASE c = "A" -> "a"
      [] c = "B" -> "b"
      [] c = "C" -> "c"
      [] c = "D" -> "d"
      [] c = "N" -> "n"
      [] OTHER -> c

FoldText(text, caseSensitivity) ==
    IF caseSensitivity = 1 THEN text ELSE [i \in 1..Len(text) |-> CaseFold(text[i])]

\* filterAcceptsRow of a proxy with a fixed string filter that always folds case.
FixedStringAcceptsRowAnyCase(row, fixedString, caseSensitivity) ==
    \/ fixedString = <<>>
    \/ \E p \in 0..Len(row.name) :
          StartsWith(FoldText(row.name, 0), p, FoldText(fixedString, 0))

\* filterAcceptsRow of the proxy with the fixed string filter.
FixedStringAcceptsRow(row, fixedString, caseSensitivity) ==
    \/ fixedString = <<>>
    \/ \E p \in 0..Len(row.name) :
          StartsWith(FoldText(row.name, caseSensitivity), p,
                     FoldText(fixedString, caseSensitivity))

\* The rows a proxy with recursive filtering shows: a row is shown when it is
\* accepted or one of its children is shown.
RECURSIVE FilterRowsRecursive(_, _, _)
FilterRowsRecursive(rows, fixedString, caseSensitivity) ==
    LET filtered == [i \in 1..Len(rows) |->
                        [rows[i] EXCEPT
                            !.children = FilterRowsRecursive(@, fixedString, caseSensitivity)]]
        Shown(row) ==
            FixedStringAcceptsRow(row, fixedString, caseSensitivity) \/ row.children # <<>>
    IN  SelectSeq(filtered, Shown)

IntermediateTreeModel == FilterRows(treeModel, intermediateRegEx, 0)

SecondIntermediateTreeModel == FilterRows(IntermediateTreeModel, secondIntermediateRegEx, 2)

FilteredTreeModel ==
    FilterRowsRecursive(SecondIntermediateTreeModel, filterFixedString, filterCaseSensitivity)

\* ---- finding rows ----
\* The predicates on items that findItemByName and findItemById build.
ItemHasName(name, fold) == [kind |-> "hasName", text |-> name, fold |-> fold]
ItemContainsName(name, fold) == [kind |-> "containsName", text |-> name, fold |-> fold]
ItemHasId(id) == [kind |-> "hasId", text |-> id, fold |-> FALSE]

\* str.casefold() when fold is true
CaseFoldText(text, fold) ==
    IF fold THEN [i \in 1..Len(text) |-> CaseFold(text[i])] ELSE text

\* predicate(item)
ItemSatisfies(predicate, row) ==
    CASE predicate.kind = "hasName" ->
            CaseFoldText(row.name, predicate.fold) = predicate.text
      [] predicate.kind = "containsName" ->
            \E p \in 0..Len(row.name) :
                StartsWith(CaseFoldText(row.name, predicate.fold), p, predicate.text)
      [] predicate.kind = "hasId" -> row.id = predicate.text

\* An index of a model is the sequence of row numbers (from 0) that leads to the
\* row; the invalid index QModelIndex() is the empty sequence.
InvalidIndex == <<>>

\* findIndexInModel that looks at the children of a row before the row itself.
RECURSIVE FindIndexChildrenFirst(_, _, _), FindChildrenFirstFromRow(_, _, _, _)
FindIndexChildrenFirst(rows, predicate, parentIndex) ==
    FindChildrenFirstFromRow(rows, predicate, parentIndex, 0)

FindChildrenFirstFromRow(rows, predicate, parentIndex, row) ==
    IF row >= Len(rows)
    THEN InvalidIndex
    ELSE LET index == Append(parentIndex, row)
             childIndex == FindIndexChildrenFirst(rows[row + 1].children, predicate, index)
         IN  IF childIndex # InvalidIndex
             THEN childIndex
             ELSE IF ItemSatisfies(predicate, rows[row + 1])
             THEN index
             ELSE FindChildrenFirstFromRow(rows, predicate, parentIndex, row + 1)

\* utilities.findIndexInModel, on the rows a model shows under parentIndex;
\* FindFromRow is its loop from a row on.
RECURSIVE FindIndexInModel(_, _, _), FindFromRow(_, _, _, _)
FindIndexInModel(rows, predicate, parentIndex) ==
    FindFromRow(rows, predicate, parentIndex, 0)

FindFromRow(rows, predicate, parentIndex, row) ==
    IF row >= Len(rows)
    THEN InvalidIndex
    ELSE LET index == Append(parentIndex, row)
         IN  IF ItemSatisfies(predicate, rows[row + 1])
             THEN index
             ELSE LET childIndex ==
                          FindIndexInModel(rows[row + 1].children, predicate, index)
                  IN  IF childIndex # InvalidIndex
                      THEN childIndex
                      ELSE FindFromRow(rows, predicate, parentIndex, row + 1)

\* findItemByName that tries the partial match only.
FindItemByNamePartialOnly(rows, caseMatters, name) ==
    LET fold == ~caseMatters
    IN  FindIndexInModel(rows, ItemContainsName(CaseFoldText(name, fold), fold), InvalidIndex)

\* findItemByName, rows being what self._filteredTreeModel shows and caseMatters
\* the value of self.matchCase
FindItemByName(rows, caseMatters, name) ==
    LET fold == ~caseMatters
        nameNoCase == CaseFoldText(name, fold)
        full == FindIndexInModel(rows, ItemHasName(nameNoCase, fold), InvalidIndex)
    IN  IF full # InvalidIndex
        THEN full
        ELSE FindIndexInModel(rows, ItemContainsName(nameNoCase, fold), InvalidIndex)

\* findItemById, rows being what self._filteredTreeModel shows
FindItemById(rows, id) == FindIndexInModel(rows, ItemHasId(id), InvalidIndex)

\* The names and ids rows are looked up by.
FindNames == SearchTexts \cup {<<"p">>, <<"q">>, <<"c">>}
FindIds ==
    {<<"m", "/", "C">>, <<"m", "/", "C", "/", "q">>, ModCyclic, <<"x", "/", "Y">>}

NoFind == [fn |-> "none", arg |-> <<>>]

FindInit ==
    /\ findCall = NoFind
    /\ findResult = InvalidIndex

\* The predicates findIndexInModel is called with.
FindPredicates ==
    {ItemHasId(id) : id \in FindIds}
    \cup {ItemContainsName(name, fold) : name \in FindNames, fold \in BOOLEAN}
    \cup {ItemHasName(name, fold) : name \in FindNames, fold \in BOOLEAN}

\* A call of findIndexInModel on the filtered tree model.
CallFindIndexInModel ==
    \E predicate \in FindPredicates :
        /\ findCall = NoFind
        /\ findCall' = [fn |-> "findIndexInModel", arg |-> predicate]
        /\ findResult' = FindIndexInModel(FilteredTreeModel, predicate, InvalidIndex)
        /\ UNCHANGED mmVars

\* A call of findItemByName.
CallFindItemByName ==
    \E name \in FindNames :
        /\ findCall = NoFind
        /\ findCall' = [fn |-> "findItemByName", arg |-> name]
        /\ findResult' = FindItemByName(FilteredTreeModel, matchCase, name)
        /\ UNCHANGED mmVars

\* A call of findItemById.
CallFindItemById ==
    \E id \in FindIds :
        /\ findCall = NoFind
        /\ findCall' = [fn |-> "findItemById", arg |-> id]
        /\ findResult' = FindItemById(FilteredTreeModel, id)
        /\ UNCHANGED mmVars

\* The caller is done with the index.
FindReturn ==
    /\ findCall # NoFind
    /\ findCall' = NoFind
    /\ findResult' = InvalidIndex
    /\ UNCHANGED mmVars

FindNext ==
    \/ CallFindIndexInModel
    \/ CallFindItemByName
    \/ CallFindItemById
    \/ FindReturn

\* ---- the operations of MainModel ----
\* __init__
MMInit ==
    /\ searchText = <<>>
    /\ matchCase = FALSE
    /\ includePrivateMembers = FALSE
    /\ includeInheritedMembers = FALSE
    /\ sortByType = TRUE
    /\ treeModel = <<>>
    /\ intermediateRegEx = ExcludePrivateRegEx
    /\ secondIntermediateRegEx = ExcludeInheritedRegEx
    /\ filterFixedString = <<>>
    /\ filterCaseSensitivity = 0
    /\ moduleNamesArg = <<>>

\* searchText.setter
SetSearchText(value) ==
    /\ searchText' = value
    /\ filterFixedString' = value
    /\ UNCHANGED <<matchCase, includePrivateMembers, includeInheritedMembers, sortByType,
                   treeModel, intermediateRegEx, secondIntermediateRegEx,
                   filterCaseSensitivity, moduleNamesArg>>
    /\ UNCHANGED findVars

\* matchCase.setter
ModelSetMatchCase(value) ==
    /\ matchCase' = value
    /\ filterCaseSensitivity' = IF value THEN 1 ELSE 0
    /\ UNCHANGED <<searchText, includePrivateMembers, includeInheritedMembers, sortByType,
                   treeModel, intermediateRegEx, secondIntermediateRegEx, filterFixedString,
                   moduleNamesArg>>
    /\ UNCHANGED findVars

\* The choice of includePrivateMembers.setter, turned round.
PrivateRegExSwapped(value) == IF value THEN ExcludePrivateRegEx ELSE IncludePrivateRegEx

\* The regular expression includePrivateMembers.setter chooses.
PrivateRegEx(value) == IF value THEN IncludePrivateRegEx ELSE ExcludePrivateRegEx

\* includePrivateMembers.setter
ModelSetIncludePrivateMembers(value) ==
    /\ includePrivateMembers' = value
    /\ intermediateRegEx' = PrivateRegEx(value)
    /\ UNCHANGED <<searchText, matchCase, includeInheritedMembers, sortByType, treeModel,
                   secondIntermediateRegEx, filterFixedString, filterCaseSensitivity,
                   moduleNamesArg>>
    /\ UNCHANGED findVars

\* The regular expression includeInheritedMembers.setter chooses.
InheritedRegEx(value) == IF value THEN IncludeInheritedRegEx ELSE ExcludeInheritedRegEx

\* includeInheritedMembers.setter
ModelSetIncludeInheritedMembers(value) ==
    /\ includeInheritedMembers' = value
    /\ secondIntermediateRegEx' = InheritedRegEx(value)
    /\ UNCHANGED <<searchText, matchCase, includePrivateMembers, sortByType, treeModel,
                   intermediateRegEx, filterFixedString, filterCaseSensitivity,
                   moduleNamesArg>>
    /\ UNCHANGED findVars

\* sortByType.setter
ModelSetSortByType(value) ==
    /\ sortByType' = value
    /\ treeModel' = Sort(treeModel, value)
    /\ UNCHANGED <<searchText, matchCase, includePrivateMembers, includeInheritedMembers,
                   intermediateRegEx, secondIntermediateRegEx, filterFixedString,
                   filterCaseSensitivity, moduleNamesArg>>
    /\ UNCHANGED findVars

\* The first loop of setModuleNames, removing no row.
KeepRows(rows, moduleNames) == rows

\* The first loop of setModuleNames: the top-level rows whose text is in the list
\* stay.
RemoveRows(rows, moduleNames) ==
    LET Listed(row) == \E i \in 1..Len(moduleNames) : moduleNames[i] = row.name
    IN  SelectSeq(rows, Listed)

\* setModuleNames
ModelSetModuleNames(moduleNames) ==
    /\ treeModel' = Sort(AddModules(RemoveRows(treeModel, moduleNames), moduleNames),
                         sortByType)
    /\ moduleNamesArg' = moduleNames
    /\ UNCHANGED <<searchText, matchCase, includePrivateMembers, includeInheritedMembers,
                   sortByType, intermediateRegEx, secondIntermediateRegEx,
                   filterFixedString, filterCaseSensitivity>>
    /\ UNCHANGED findVars

\* The states of a MainModel after any calls of its setters and setModuleNames.
MMAnyState ==
    \E text \in SearchTexts, mc \in BOOLEAN, private \in BOOLEAN, inherited \in BOOLEAN,
       byType \in BOOLEAN, moduleNames \in SelectedModuleLists :
        /\ searchText = text
        /\ matchCase = mc
        /\ includePrivateMembers = private
        /\ includeInheritedMembers = inherited
        /\ sortByType = byType
        /\ treeModel = Sort(AddModules(<<>>, moduleNames), byType)
        /\ intermediateRegEx = PrivateRegEx(private)
        /\ secondIntermediateRegEx = InheritedRegEx(inherited)
        /\ filterFixedString = text
        /\ filterCaseSensitivity = (IF mc THEN 1 ELSE 0)
        /\ moduleNamesArg = moduleNames

ChangeSearchText == \E value \in SearchTexts : SetSearchText(value)
ChangeMatchCase == \E value \in BOOLEAN : ModelSetMatchCase(value)
ChangeIncludePrivateMembers == \E value \in BOOLEAN : ModelSetIncludePrivateMembers(value)
ChangeIncludeInheritedMembers == \E value \in BOOLEAN : ModelSetIncludeInheritedMembers(value)
ChangeSortByType == \E value \in BOOLEAN : ModelSetSortByType(value)
ChangeModuleNames == \E moduleNames \in SelectedModuleLists : ModelSetModuleNames(moduleNames)

MMNext ==
    \/ ChangeSearchText
    \/ ChangeMatchCase
    \/ ChangeIncludePrivateMembers
    \/ ChangeIncludeInheritedMembers
    \/ ChangeSortByType
    \/ ChangeModuleNames

(***************************************************************************)
(* MainWindow                                                              *)
(*                                                                         *)
(* The window holds the Config object, the MainModel, the search box, the  *)
(* four check boxes, the tree view showing filteredTreeModel and the text  *)
(* browser whose links it handles.  A selected row is told by the id and   *)
(* the error of its item, which no sorting or filtering changes.           *)
(***************************************************************************)
NoSelection == [id |-> <<>>, error |-> ""]
NoLink == [scheme |-> "", path |-> <<>>]
NoOpen == [app |-> "none", target |-> <<>>]

\* The links the text browser shows: the source file, web pages, items of the
\* tree and a link of another scheme.
Urls ==
    {[scheme |-> "file", path |-> <<"/", "m">>],
     [scheme |-> "http", path |-> <<"/", "/", "h">>],
     [scheme |-> "https", path |-> <<"/", "/", "h">>],
     [scheme |-> "item", path |-> <<"m", "/", "C", "/", "q">>],
     [scheme |-> "item", path |-> ModCyclic],
     [scheme |-> "mailto", path |-> <<"a">>]}

\* QUrl.toString(): the scheme, a colon and the rest.
UrlToString(url) == <<url.scheme, ":">> \o url.path

\* The configuration files the window is started with.
WindowFiles == {MissingFile, ObjectFile(JsonDump(OptionNames, NonDefaultSettings))}

\* How the writes of the file end while the window is used.
WindowWriteOutcomes == {"ok", "dumpFails"}

\* The texts typed into the search box of the window.
WindowSearchTexts == {<<>>, <<"q">>}

\* The lists of checked modules the dialog is accepted with.
WindowModuleLists == {<<>>, <<BuiltinsName>>, <<ModA, ModPrivate>>, <<ModCyclic, ModA>>}

\* Qt.Checked if value else Qt.Unchecked, with no box ever checked.
CheckStateUnchecked(value) == "Unchecked"

\* Qt.Checked if value else Qt.Unchecked
CheckState(value) == IF value THEN "Checked" ELSE "Unchecked"

\* utilities.getItemFromIndex: the item at an index of the rows a model shows,
\* None (no selection) for an invalid index.
RECURSIVE GetItemFromIndex(_, _)
GetItemFromIndex(rows, index) ==
    IF index = InvalidIndex
    THEN NoSelection
    ELSE LET row == rows[Head(index) + 1]
         IN  IF Len(index) = 1
             THEN [id |-> row.id, error |-> row.error]
             ELSE GetItemFromIndex(row.children, Tail(index))

\* The items of all rows that a model shows.
RECURSIVE ShownItems(_)
ShownItems(rows) ==
    UNION {{[id |-> rows[i].id, error |-> rows[i].error]} \cup ShownItems(rows[i].children) :
              i \in 1..Len(rows)}

\* What self._filteredTreeModel shows of given rows of the tree model under
\* given filters.
FilteredRows(rows, privateRegEx, inheritedRegEx, fixedString, caseSensitivity) ==
    FilterRowsRecursive(FilterRows(FilterRows(rows, privateRegEx, 0), inheritedRegEx, 2),
                        fixedString, caseSensitivity)

\* The selection of the tree view once the rows of its model changed from
\* before to after: it is as it was when no row left the view; when rows left
\* it, the view moved its current index as it saw fit, so that no row or any
\* row may be selected.
ViewSelections(old, before, after) ==
    IF ShownItems(before) \subseteq ShownItems(after)
    THEN {old}
    ELSE {NoSelection} \cup ShownItems(after)

\* _selectFirstMatch: the item selected when it returns, kept being the item
\* selected when it was called and rows what the model shows.
SelectFirstMatch(rows, caseMatters, text, kept) ==
    LET index == IF Len(text) > 0 THEN FindItemByName(rows, caseMatters, text) ELSE InvalidIndex
    IN  IF index # InvalidIndex THEN GetItemFromIndex(rows, index) ELSE kept

\* The setters of the model called by a handler have run: the view follows the
\* rows of the model.
ViewFollowsModel ==
    \E old \in {selection}, before \in {FilteredTreeModel}, rows \in {treeModel'},
       privateRegEx \in {intermediateRegEx'}, inheritedRegEx \in {secondIntermediateRegEx'},
       fixedString \in {filterFixedString'}, caseSensitivity \in {filterCaseSensitivity'} :
        \E after \in {FilteredRows(rows, privateRegEx, inheritedRegEx, fixedString,
                                   caseSensitivity)} :
            selection' \in ViewSelections(old, before, after)

\* The setters of the model called by a handler have run, and the handler
\* calls _selectFirstMatch.
ViewSelectsFirstMatch ==
    \E old \in {selection}, before \in {FilteredTreeModel}, rows \in {treeModel'},
       privateRegEx \in {intermediateRegEx'}, inheritedRegEx \in {secondIntermediateRegEx'},
       fixedString \in {filterFixedString'}, caseSensitivity \in {filterCaseSensitivity'},
       caseMatters \in {matchCase'}, text \in {searchText'} :
        \E after \in {FilteredRows(rows, privateRegEx, inheritedRegEx, fixedString,
                                   caseSensitivity)} :
            \E kept \in ViewSelections(old, before, after) :
                selection' = SelectFirstMatch(after, caseMatters, text, kept)

\* self._treeView.setCurrentIndex(index), whatever the index.
SetCurrentIndexAlways(rows, index, old) == GetItemFromIndex(rows, index)

\* if index.isValid(): self._treeView.setCurrentIndex(index)
SetCurrentIndexIfValid(rows, index, old) ==
    IF index # InvalidIndex THEN GetItemFromIndex(rows, index) ELSE old

\* A property setter of Config called by the window: the value is stored and
\* the file written.  (lastCall and reloaded serve the study of Config alone.)
ConfigSet(option, value) ==
    /\ config' = [config EXCEPT ![option] = value]
    /\ \E outcome \in WindowWriteOutcomes : cfgFile' = Save(config', cfgFile, outcome)
    /\ UNCHANGED <<lastCall, reloaded>>

\* The text of the search box becomes newText: textChanged starts the timer
\* again.
SearchEditSetText(newText) ==
    IF newText = seText
    THEN UNCHANGED seVars
    ELSE /\ seText' = newText
         /\ RestartTimer
         /\ UNCHANGED <<sinceChange, emitted, lastEmitAge, prevGap, emittedInGap>>

\* MainWindow.__init__: the model takes the options of the configuration, the
\* check boxes take the options of the model.
WindowInit ==
    /\ cfgFile \in WindowFiles
    /\ config = ConfigInit(cfgFile)
    /\ lastCall = NoCall
    /\ reloaded = NoConfig
    /\ searchText = <<>>
    /\ matchCase = config.matchCase
    /\ includePrivateMembers = config.includePrivateMembers
    /\ includeInheritedMembers = config.includeInheritedMembers
    /\ sortByType = config.sortByType
    /\ treeModel = Sort(AddModules(RemoveRows(Sort(<<>>, sortByType), config.moduleNames),
                                   config.moduleNames),
                        sortByType)
    /\ intermediateRegEx = PrivateRegEx(includePrivateMembers)
    /\ secondIntermediateRegEx = InheritedRegEx(includeInheritedMembers)
    /\ filterFixedString = <<>>
    /\ filterCaseSensitivity = (IF matchCase THEN 1 ELSE 0)
    /\ moduleNamesArg = config.moduleNames
    /\ checkState = [matchCase |-> CheckState(matchCase),
                     includePrivateMembers |-> CheckState(includePrivateMembers),
                     includeInheritedMembers |-> CheckState(includeInheritedMembers),
                     sortByType |-> CheckState(sortByType)]
    /\ selection = NoSelection
    /\ dialog = "closed"
    /\ linkCall = NoLink
    /\ opened = NoOpen

\* The window is ready for the user: no dialog is open and no handler runs.
WindowReady == dialog = "closed" /\ linkCall = NoLink

\* The user types into the search box: _searchEditTextChanged
SearchEditTextChanged(text) ==
    /\ WindowReady
    /\ SearchEditSetText(text)
    /\ SetSearchText(text)
    /\ ViewFollowsModel
    /\ UNCHANGED <<cfgVars, checkState, dialog, linkCall, opened>>

\* The timer of the search box fires: delayedTextChanged, _selectFirstMatch
DelayedTextChanged ==
    /\ linkCall = NoLink
    /\ timerActive
    /\ timerActive' = ~SingleShot
    /\ selection' = SelectFirstMatch(FilteredTreeModel, matchCase, searchText, selection)
    /\ UNCHANGED <<seText, timerElapsed, sinceChange, emitted, lastEmitAge, prevGap,
                   emittedInGap, cfgVars, mmVars, findVars, checkState, dialog, linkCall,
                   opened>>

\* _matchCaseCheckBoxStateChanged
MatchCaseCheckBoxStateChanged(state) ==
    LET isChecked == state = "Checked"
    IN  /\ WindowReady
        /\ checkState' = [checkState EXCEPT !.matchCase = state]
        /\ ConfigSet("matchCase", isChecked)
        /\ ModelSetMatchCase(isChecked)
        /\ ViewSelectsFirstMatch
        /\ UNCHANGED <<seVars, dialog, linkCall, opened>>

\* _includePrivateCheckBoxStateChanged
IncludePrivateCheckBoxStateChanged(state) ==
    LET isChecked == state = "Checked"
    IN  /\ WindowReady
        /\ checkState' = [checkState EXCEPT !.includePrivateMembers = state]
        /\ ConfigSet("includePrivateMembers", isChecked)
        /\ ModelSetIncludePrivateMembers(isChecked)
        /\ ViewSelectsFirstMatch
        /\ UNCHANGED <<seVars, dialog, linkCall, opened>>

\* _includeInheritedCheckBoxStateChanged
IncludeInheritedCheckBoxStateChanged(state) ==
    LET isChecked == state = "Checked"
    IN  /\ WindowReady
        /\ checkState' = [checkState EXCEPT !.includeInheritedMembers = state]
        /\ ConfigSet("includeInheritedMembers", isChecked)
        /\ ModelSetIncludeInheritedMembers(isChecked)
        /\ ViewSelectsFirstMatch
        /\ UNCHANGED <<seVars, dialog, linkCall, opened>>

\* _sortByTypeCheckBoxStateChanged
SortByTypeCheckBoxStateChanged(state) ==
    LET isChecked == state = "Checked"
    IN  /\ WindowReady
        /\ checkState' = [checkState EXCEPT !.sortByType = state]
        /\ ConfigSet("sortByType", isChecked)
        /\ ModelSetSortByType(isChecked)
        /\ UNCHANGED <<seVars, selection, dialog, linkCall, opened>>

\* The user clicks a row of the tree view.
TreeClicked(item) ==
    /\ WindowReady
    /\ item \in ShownItems(FilteredTreeModel)
    /\ selection' = item
    /\ UNCHANGED <<seVars, cfgVars, mmVars, findVars, checkState, dialog, linkCall, opened>>

\* _linkClicked
LinkClicked(url) ==
    /\ WindowReady
    /\ linkCall' = url
    /\ CASE url.scheme = "file" ->
              /\ opened' = [app |-> "openFile", target |-> url.path]
              /\ UNCHANGED <<seVars, mmVars, findVars, selection>>
         [] url.scheme = "http" \/ url.scheme = "https" ->
              /\ opened' = [app |-> "browser", target |-> UrlToString(url)]
              /\ UNCHANGED <<seVars, mmVars, findVars, selection>>
         [] url.scheme = "item" ->
              /\ opened' = NoOpen
              /\ SearchEditSetText(<<>>)
              /\ SetSearchText(<<>>)
              /\ \E old \in {selection}, rows \in {treeModel'},
                    privateRegEx \in {intermediateRegEx'},
                    inheritedRegEx \in {secondIntermediateRegEx'},
                    fixedString \in {filterFixedString'},
                    caseSensitivity \in {filterCaseSensitivity'} :
                     \E after \in {FilteredRows(rows, privateRegEx, inheritedRegEx,
                                                fixedString, caseSensitivity)} :
                         selection' = SetCurrentIndexIfValid(after,
                                                             FindItemById(after, url.path),
                                                             old)
         [] OTHER ->
              /\ opened' = NoOpen
              /\ UNCHANGED <<seVars, mmVars, findVars, selection>>
    /\ UNCHANGED <<cfgVars, checkState, dialog>>

\* _linkClicked has returned.
LinkReturn ==
    /\ linkCall # NoLink
    /\ linkCall' = NoLink
    /\ opened' = NoOpen
    /\ UNCHANGED <<seVars, cfgVars, mmVars, findVars, checkState, selection, dialog>>

\* _selectModulesButtonClicked: the dialog opens, modal to the application.
SelectModulesButtonClicked ==
    /\ WindowReady
    /\ dialog' = "open"
    /\ UNCHANGED <<seVars, cfgVars, mmVars, findVars, checkState, selection, linkCall, opened>>

\* _moduleSelectionDialogFinished
ModuleSelectionDialogFinished(result, moduleNames) ==
    /\ dialog = "open"
    /\ linkCall = NoLink
    /\ dialog' = "closed"
    /\ IF result = "Accepted"
       THEN /\ ModelSetModuleNames(moduleNames)
            /\ ConfigSet("moduleNames", moduleNames)
            /\ ViewSelectsFirstMatch
       ELSE UNCHANGED <<cfgVars, mmVars, findVars, selection>>
    /\ UNCHANGED <<seVars, checkState, linkCall, opened>>

SearchTextTyped == \E text \in WindowSearchTexts \ {seText} : SearchEditTextChanged(text)
MatchCaseToggled ==
    \E state \in {"Unchecked", "Checked"} \ {checkState.matchCase} :
       MatchCaseCheckBoxStateChanged(state)
IncludePrivateToggled ==
    \E state \in {"Unchecked", "Checked"} \ {checkState.includePrivateMembers} :
       IncludePrivateCheckBoxStateChanged(state)
IncludeInheritedToggled ==
    \E state \in {"Unchecked", "Checked"} \ {checkState.includeInheritedMembers} :
       IncludeInheritedCheckBoxStateChanged(state)
SortByTypeToggled ==
    \E state \in {"Unchecked", "Checked"} \ {checkState.sortByType} :
       SortByTypeCheckBoxStateChanged(state)
RowClicked == \E item \in ShownItems(FilteredTreeModel) : TreeClicked(item)
LinkActivated == \E url \in Urls : LinkClicked(url)
DialogAccepted ==
    \E moduleNames \in WindowModuleLists : ModuleSelectionDialogFinished("Accepted", moduleNames)
DialogRejected == ModuleSelectionDialogFinished("Rejected", <<>>)

WindowNext ==
    \/ SearchTextTyped
    \/ DelayedTextChanged
    \/ MatchCaseToggled
    \/ IncludePrivateToggled
    \/ IncludeInheritedToggled
    \/ SortByTypeToggled
    \/ RowClicked
    \/ LinkActivated
    \/ LinkReturn
    \/ SelectModulesButtonClicked
    \/ DialogAccepted
    \/ DialogRejected

(***************************************************************************)
(* The detail pane: MainWindow._displayInfo                                *)
(*                                                                         *)
(* The HTML given to the text browser is a sequence of elements.  Of the   *)
(* item displayed the model keeps its type, the method resolution order of *)
(* its value (inspect.getmro) and what __subclasses__() gives; the texts   *)
(* inspect finds for the name, the source file, the signature and the      *)
(* documentation are left out.                                             *)
(***************************************************************************)
InfoClass(module, qualname) == [module |-> module, qualname |-> qualname]

\* The class object, at the end of every method resolution order.
ObjectClass == InfoClass("builtins", "object")

\* The other classes of the modules inspected.
InfoClasses == {InfoClass("m", "Base"), InfoClass("m", "Mixin"), InfoClass("m", "C")}

\* inspect.getmro(memberValue) of a class: the class, then its ancestors in the
\* order they are searched, each once, object last.
Mros ==
    {Append(ancestors, ObjectClass) :
        ancestors \in {list \in UNION {[1..n -> InfoClasses] : n \in 0..Cardinality(InfoClasses)} :
                          \A i, j \in DOMAIN list : i # j => list[i] # list[j]}}

\* memberValue.__subclasses__(): a list of classes, or a TypeError (as for the
\* class type).
SubclassLists ==
    {<<>>, <<InfoClass("m", "Sub")>>, <<InfoClass("m", "Sub"), InfoClass("n", "Sub.In")>>}

NoItem == [type |-> "none", mro |-> <<>>, subclasses |-> <<>>, raises |-> FALSE]

\* The items of the tree that can be displayed.
InfoItems ==
    {[type |-> t, mro |-> m, subclasses |-> s, raises |-> r] :
        t \in {"class", "abstract base class"}, m \in Mros, s \in SubclassLists,
        r \in BOOLEAN}
        \cup {[NoItem EXCEPT !.type = t] : t \in {"module", "function", "property", "object"}}

\* reversed(baseClasses), leaving the order as it is.
ReversedKeepingOrder(list) == list

\* reversed(baseClasses)
Reversed(list) == [i \in 1..Len(list) |-> list[Len(list) + 1 - i]]

\* <li><a href="item:{moduleName}/{className}">{className}</a> from {moduleName}</li>
ListItem(class) ==
    [tag |-> "li", href |-> <<"item", ":", class.module, "/", class.qualname>>,
     text |-> class.qualname, from |-> class.module]

Paragraph(text) == [tag |-> "p", href |-> <<>>, text |-> text, from |-> ""]

\* The list of base classes: the method resolution order without its first
\* entry, reversed; nothing when the order has one entry.
BaseClassesHtml(mro) ==
    IF Len(mro) > 1
    THEN LET baseClasses == Reversed(Tail(mro))
         IN  <<Paragraph("Base classes:")>>
                 \o [i \in 1..Len(baseClasses) |-> ListItem(baseClasses[i])]
    ELSE <<>>

\* The list of derived classes.
DerivedClassesHtml(derivedClasses) ==
    IF Len(derivedClasses) > 0
    THEN <<Paragraph("Derived classes:")>>
             \o [i \in 1..Len(derivedClasses) |-> ListItem(derivedClasses[i])]
    ELSE <<>>

\* _displayInfo: the type, then for a class the inheritance hierarchy; an
\* exception of __subclasses__() ends the hierarchy after the base classes.
DisplayInfoHtml(item) ==
    <<Paragraph(item.type)>>
        \o (IF item.type \in {"class", "abstract base class"}
            THEN BaseClassesHtml(item.mro)
                     \o (IF item.raises THEN <<>> ELSE DerivedClassesHtml(item.subclasses))
            ELSE <<>>)

InfoIdle ==
    /\ infoItem = NoItem
    /\ infoHtml = <<>>

\* An item of the tree is selected: _updateInfo, _displayInfo
DisplayInfo(item) ==
    /\ infoItem' = item
    /\ infoHtml' = DisplayInfoHtml(item)

InfoNext == \E item \in InfoItems : DisplayInfo(item)

(***************************************************************************)
(* Specifications                                                          *)
(***************************************************************************)
\* The configuration object of a program started without a configuration file.
CfgIdle ==
    /\ cfgFile = MissingFile
    /\ config = ConfigInit(MissingFile)
    /\ lastCall = NoCall
    /\ reloaded = NoConfig

\* The window before it is constructed.
WindowIdle ==
    /\ checkState = [matchCase |-> "Unchecked", includePrivateMembers |-> "Unchecked",
                     includeInheritedMembers |-> "Unchecked", sortByType |-> "Unchecked"]
    /\ selection = NoSelection
    /\ dialog = "closed"
    /\ linkCall = NoLink
    /\ opened = NoOpen

Init ==
    /\ SEInit
    /\ CfgIdle
    /\ HLInit
    /\ RTIdle
    /\ MMInit
    /\ FindInit
    /\ WindowIdle
    /\ InfoIdle

\* The search box alone.
SpecSearch == Init /\ [][SENext /\ UNCHANGED <<cfgVars, hlVars, rtVars, mmVars, findVars, winVars, infoVars>>]_vars

\* The configuration object alone, started with any configuration file.
InitConfig ==
    /\ SEInit
    /\ CfgInit
    /\ HLInit
    /\ RTIdle
    /\ MMInit
    /\ FindInit
    /\ WindowIdle
    /\ InfoIdle

SpecConfig == InitConfig /\ [][CfgNext /\ UNCHANGED <<seVars, hlVars, rtVars, mmVars, findVars, winVars, infoVars>>]_vars

\* The highlighter alone, going through the blocks of a document.
SpecHighlighter == Init /\ [][HLNext /\ UNCHANGED <<seVars, cfgVars, rtVars, mmVars, findVars, winVars, infoVars>>]_vars

\* The block state of each kind of opening line, decoded and encoded again.
InitRoundTrip ==
    /\ SEInit
    /\ CfgIdle
    /\ HLInit
    /\ RTInit
    /\ MMInit
    /\ FindInit
    /\ WindowIdle
    /\ InfoIdle

SpecRoundTrip ==
    InitRoundTrip /\ [][RTNext /\ UNCHANGED <<seVars, cfgVars, hlVars, mmVars, findVars, winVars, infoVars>>]_vars

\* Rows looked up in a data model in any of its states.
InitFind ==
    /\ SEInit
    /\ CfgIdle
    /\ HLInit
    /\ RTIdle
    /\ MMAnyState
    /\ FindInit
    /\ WindowIdle
    /\ InfoIdle

SpecFind ==
    InitFind /\ [][FindNext /\ UNCHANGED <<seVars, cfgVars, hlVars, rtVars, winVars, infoVars>>]_vars

\* The data model alone, from its construction on.
SpecModel ==
    Init /\ [][MMNext /\ UNCHANGED <<seVars, cfgVars, hlVars, rtVars, winVars, infoVars>>]_vars

\* The window in use, from its construction on.
InitWindow ==
    /\ SEInit
    /\ HLInit
    /\ RTIdle
    /\ FindInit
    /\ WindowInit
    /\ InfoIdle

SpecWindow == InitWindow /\ [][WindowNext /\ UNCHANGED <<hlVars, rtVars, infoVars>>]_vars

\* The detail pane alone.
SpecInfo ==
    Init /\ [][InfoNext /\ UNCHANGED <<seVars, cfgVars, hlVars, rtVars, mmVars, findVars,
                                        winVars>>]_vars

\* C1: delayedTextChanged is emitted only once 500 ms have passed since the most
\* recent text change: no emission falls between two changes less than 500 ms
\* apart, at most one emission follows a change, and after a change the timer is
\* running (counting from that change) exactly as long as that one emission is
\* still due.
C1_Debounce ==
    /\ emitted <= 1
    /\ (emitted >= 1 => lastEmitAge >= Interval)
    /\ (prevGap >= 0 /\ prevGap < Interval => emittedInGap = 0)
    /\ (sinceChange >= 0 => (timerActive <=> emitted = 0))
    /\ (timerActive => timerElapsed = sinceChange)

\* A burst of two changes less than 500 ms apart, followed by its one emission.
C1_Witness ==
    /\ prevGap >= 0 /\ prevGap < Interval
    /\ emitted = 1
    /\ lastEmitAge >= Interval

\* The offset of the block's own text in the text highlightBlock scans.
C2_Offset == Len(GetInitialQuoteFromBlockState(hlPrevState))

\* The last token of the block is a string or raw string that reaches the end
\* of the line and does not end with its closing quote.
C2_EndsInUnclosedString ==
    /\ hlMatches # <<>>
    /\ LET last == hlMatches[Len(hlMatches)]
       IN  /\ last.role \in {"string", "rawString"}
           /\ last.end = C2_Offset + Len(hlText)
           /\ last.endText # last.quote

\* The state describes the string: its quote character, the length of its quote
\* and the bytes, formatted and raw flags of its prefix.
C2_Describes(state, match) ==
    /\ state \in 0..31
    /\ HasBit(state, 1) <=> match.quote[1] = DQ
    /\ HasBit(state, 2) <=> Len(match.quote) = 3
    /\ HasBit(state, 4) <=> \E i \in 1..Len(match.prefix) : match.prefix[i] \in {"b", "B"}
    /\ HasBit(state, 8) <=> \E i \in 1..Len(match.prefix) : match.prefix[i] \in {"f", "F"}
    /\ HasBit(state, 16) <=> \E i \in 1..Len(match.prefix) : match.prefix[i] \in {"r", "R"}
    /\ HasBit(state, 16) <=> match.role = "rawString"

\* C2: after highlightBlock the block state is -1 unless the last token of the
\* line is a string or raw string that reaches the end of the line without its
\* closing quote, and then it is a value in 0..31 that describes that string.
C2_BlockState ==
    hlPc = "done" =>
        IF C2_EndsInUnclosedString
        THEN C2_Describes(hlState, hlMatches[Len(hlMatches)])
        ELSE hlState = -1

\* A line that closes the raw triple-quoted string carried over from the line
\* before it, goes on with another token, and ends with state -1.
C2_Witness ==
    /\ hlPc = "done"
    /\ hlPrevState = 18
    /\ Len(hlMatches) >= 2
    /\ hlMatches[1].endText = <<SQ, SQ, SQ>>
    /\ hlState = -1

\* What C3 says of the texts and states of one round trip; withSpace tells
\* whether the initial quote ends with a space after the opening quote.
C3_RoundTrip(withSpace) ==
    rtPc = "reencoded" =>
        IF rtState < 0
        THEN rtInitialQuote = <<>>
        ELSE /\ Len(rtMatches2) = 1
             /\ LET m == rtMatches2[1]
                IN  /\ m.start = 0
                    /\ m.end = Len(rtInitialQuote)
                    /\ rtInitialQuote
                         = m.prefix \o m.quote \o (IF withSpace THEN <<" ">> ELSE <<>>)
                    /\ m.role = rtMatch.role
                    /\ m.role = (IF \E i \in 1..Len(rtPrefix) : rtPrefix[i] \in {"r", "R"}
                                 THEN "rawString" ELSE "string")
                    /\ m.quote = rtQuote
                    /\ \A c \in {"b", "f", "r"} :
                          (\E i \in 1..Len(m.prefix) : Lower(m.prefix[i]) = c)
                              <=> (\E i \in 1..Len(rtPrefix) : Lower(rtPrefix[i]) = c)
             /\ rtState2 = rtState

C4_ClosingQuote(state) ==
    LET q == IF HasBit(state, 1) THEN DQ ELSE SQ
    IN  IF HasBit(state, 2) THEN <<q, q, q>> ELSE <<q>>

\* The format of the string a state describes.
C4_StringRole(state) == IF HasBit(state, 16) THEN "rawString" ELSE "string"

\* The block is highlighted after a block that ended inside a string, and its
\* text does not contain the closing quote of that string.
C4_InsideString ==
    /\ hlPc = "done"
    /\ hlPrevState >= 0
    /\ ~\E p \in 0..Len(hlText) : StartsWith(hlText, p, C4_ClosingQuote(hlPrevState))

C5_TopLevelNames(rows) == {rows[i].name : i \in 1..Len(rows)}

\* C5: after setModuleNames(names) the set of the names of the top-level rows of
\* the tree equals the set of the names in the list: rows of names that are not
\* listed are gone, and every listed name has a row, imported or not.
C5_TopLevelNamesAreListed ==
    C5_TopLevelNames(treeModel) = {moduleNamesArg[i] : i \in 1..Len(moduleNamesArg)}

\* setModuleNames was called with a module that cannot be imported and one that
\* can: both have a row, the first an error row, and nothing else is left.
C5_Witness ==
    /\ moduleNamesArg = <<ModBroken, ModA>>
    /\ Len(treeModel) = 2
    /\ \E i \in 1..2 : treeModel[i].name = ModBroken /\ treeModel[i].error = ImportErrorText
    /\ \E i \in 1..2 : treeModel[i].name = ModA /\ treeModel[i].children # <<>>

\* C6: after a setter call whose write succeeded, a new Config constructed from
\* the same filename holds exactly the five current values.
C6_SaveThenLoadRoundTrip ==
    (lastCall.option # "none" /\ lastCall.outcome = "ok" /\ reloaded # NoConfig)
        => reloaded = config

\* A Config reloaded after a successful setter call, holding values that the
\* initial file did not give.
C6_Witness ==
    /\ lastCall.option = "moduleNames"
    /\ lastCall.outcome = "ok"
    /\ reloaded = config
    /\ config.moduleNames = <<ModBroken, ModA>>
    /\ config.matchCase /\ ~config.sortByType /\ ~config.includePrivateMembers

\* C7: when the write fails, the setter that triggered it does not raise and the
\* option holds the newly assigned value.
C7_SaveErrorsIgnored ==
    (lastCall.option # "none" /\ lastCall.outcome # "ok")
        => /\ ~lastCall.raised
           /\ config[lastCall.option] = lastCall.value

\* A setter call whose write failed after truncating the file.
C7_Witness ==
    /\ lastCall.option = "sortByType"
    /\ lastCall.outcome = "dumpFails"
    /\ lastCall.value = FALSE
    /\ cfgFile = InvalidFile

\* What C8 expects of a Config constructed from the given file.
C8_Expected(cfg, file) ==
    /\ (file.kind \in {"missing", "invalid"} =>
            /\ cfg.matchCase = FALSE
            /\ cfg.includePrivateMembers = FALSE
            /\ cfg.includeInheritedMembers = FALSE
            /\ cfg.sortByType = TRUE
            /\ cfg.moduleNames = <<BuiltinsName>>)
    /\ (file.kind = "object" =>
            /\ ("matchCase" \notin DOMAIN file.obj => cfg.matchCase = FALSE)
            /\ ("includePrivateMembers" \notin DOMAIN file.obj =>
                    cfg.includePrivateMembers = FALSE)
            /\ ("includeInheritedMembers" \notin DOMAIN file.obj =>
                    cfg.includeInheritedMembers = FALSE)
            /\ ("sortByType" \notin DOMAIN file.obj => cfg.sortByType = TRUE)
            /\ ("moduleNames" \notin DOMAIN file.obj =>
                    cfg.moduleNames = <<BuiltinsName>>)
            /\ \A k \in DOMAIN file.obj : JsonEncode(k, cfg[k]) = file.obj[k])

\* C8: a Config constructed from a file that is absent or no JSON holds the
\* defaults; constructed from a JSON object, each missing key has its default
\* and each present key the file's value.
C8_LoadDefaults ==
    /\ (lastCall.option = "none" => C8_Expected(config, cfgFile))
    /\ (reloaded # NoConfig => C8_Expected(reloaded, cfgFile))

\* A Config constructed from an object that has some keys and lacks others, and
\* one constructed from a file truncated by a failed write.
C8_Witness ==
    \/ /\ reloaded # NoConfig
       /\ cfgFile.kind = "object"
       /\ DOMAIN cfgFile.obj = {"matchCase", "moduleNames"}
       /\ reloaded.matchCase /\ reloaded.sortByType
    \/ /\ reloaded # NoConfig
       /\ cfgFile = InvalidFile
       /\ lastCall.outcome = "dumpFails"
       /\ config # reloaded

\* For every row of a tree, at any level, the rows from the top level down to
\* it, each without its children.
RECURSIVE RowChains(_)
RowChains(rows) ==
    UNION {LET top == [rows[i] EXCEPT !.children = <<>>]
           IN  {<<top>>} \cup {<<top>> \o chain : chain \in RowChains(rows[i].children)} :
           i \in 1..Len(rows)}

\* A name that begins with a single underscore.
C9_IsPrivateName(name) ==
    /\ Len(name) >= 1
    /\ name[1] = "_"
    /\ ~(Len(name) >= 2 /\ name[2] = "_")

\* A name that begins with two underscores or with another character than the
\* underscore.
C9_IsPublicName(name) ==
    \/ Len(name) >= 2 /\ name[1] = "_" /\ name[2] = "_"
    \/ Len(name) >= 1 /\ name[1] # "_"

RECURSIVE C10_InheritedIn(_, _)
C10_InheritedIn(parentId, obj) ==
    UNION {LET id == parentId \o <<"/">> \o obj.members[k].name
           IN  (IF obj.kind = "class" /\ obj.members[k].name \notin obj.dict
                THEN {id} ELSE {})
               \cup (IF obj.members[k].value.kind = "class"
                     THEN C10_InheritedIn(id, obj.members[k].value) ELSE {}) :
           k \in 1..Len(obj.members)}

C10_InheritedIds ==
    UNION {C10_InheritedIn(moduleName, ImportModule(moduleName)) :
           moduleName \in ImportableModules}

\* C10: the rows marked inherited are those of the class members that are not in
\* the __dict__ of their class; when includeInheritedMembers is false,
\* filteredTreeModel shows none of them and no row below one of them, and the
\* inherited-member filter lets through every other row that has no such row
\* above it (members a class defines itself, module members, modules); when
\* includeInheritedMembers is true that filter lets through every row.
C10_InheritedMembersFilter ==
    /\ \A chain \in RowChains(treeModel) :
          LET row == chain[Len(chain)]
          IN  row.inheritance = InheritedText <=> row.id \in C10_InheritedIds
    /\ ~includeInheritedMembers =>
        /\ \A chain \in RowChains(FilteredTreeModel) :
              \A i \in 1..Len(chain) : chain[i].id \notin C10_InheritedIds
        /\ \A chain \in RowChains(IntermediateTreeModel) :
              (\A i \in 1..Len(chain) : chain[i].id \notin C10_InheritedIds)
                  => chain \in RowChains(SecondIntermediateTreeModel)
    /\ includeInheritedMembers =>
          RowChains(SecondIntermediateTreeModel) = RowChains(IntermediateTreeModel)

\* Inherited members are excluded, class C of module m has the inherited
\* property q with its accessors in the tree, and filteredTreeModel shows the
\* getter of its own property p.
C10_Witness ==
    /\ ~includeInheritedMembers
    /\ \E chain \in RowChains(treeModel) :
          /\ Len(chain) = 4
          /\ chain[3].id = <<"m", "/", "C", "/", "q">>
          /\ chain[3].inheritance = InheritedText
    /\ \E chain \in RowChains(FilteredTreeModel) :
          /\ Len(chain) = 4
          /\ chain[3].id = <<"m", "/", "C", "/", "p">>
          /\ chain[4].name = <<"[", "g", "e", "t", "]">>

\* The text as the search compares it: as it is when matchCase is true, with
\* its case folded otherwise.
C11_Fold(text) == IF matchCase THEN text ELSE [i \in 1..Len(text) |-> CaseFold(text[i])]

\* The name of a row contains the search text.
C11_NameContainsSearchText(row) ==
    \E p \in 0..Len(row.name) : StartsWith(C11_Fold(row.name), p, C11_Fold(searchText))

\* A row passes the private-member filter and the inherited-member filter.
C11_PassesBoth(row) ==
    /\ includePrivateMembers \/ C9_IsPublicName(row.name)
    /\ includeInheritedMembers \/ row.inheritance = <<>>

\* A row of the tree, given with the rows above it, is visible: it and the rows
\* above it pass both filters and, for a search text that is not empty, its name
\* or the name of a row below it that the two filters let through contains the
\* search text.
C11_Visible(chain) ==
    /\ \A i \in 1..Len(chain) : C11_PassesBoth(chain[i])
    /\ \/ searchText = <<>>
       \/ \E below \in RowChains(treeModel) :
             /\ Len(below) >= Len(chain)
             /\ SubSeq(below, 1, Len(chain)) = chain
             /\ \A i \in 1..Len(below) : C11_PassesBoth(below[i])
             /\ C11_NameContainsSearchText(below[Len(below)])

RECURSIVE C12_Indexes(_, _)
C12_Indexes(rows, parentIndex) ==
    UNION {{Append(parentIndex, r)}
             \cup C12_Indexes(rows[r + 1].children, Append(parentIndex, r)) :
           r \in 0..(Len(rows) - 1)}

\* The row at an index of a model.
RECURSIVE C12_RowAt(_, _)
C12_RowAt(rows, index) ==
    IF Len(index) = 1
    THEN rows[index[1] + 1]
    ELSE C12_RowAt(rows[index[1] + 1].children, Tail(index))

\* One index comes before another in depth-first pre-order: it is the index of a
\* row above the other, or at the first level where they part its row number
\* is the smaller.
C12_Before(a, b) ==
    \/ Len(a) < Len(b) /\ SubSeq(b, 1, Len(a)) = a
    \/ \E i \in 1..Len(a) :
          /\ i <= Len(b)
          /\ SubSeq(a, 1, i - 1) = SubSeq(b, 1, i - 1)
          /\ a[i] < b[i]

\* The index found is the first, in pre-order, of a row of the model that
\* satisfies the predicate, and the invalid index iff no row does.
C12_IsFirst(rows, predicate, found) ==
    LET satisfying == {index \in C12_Indexes(rows, InvalidIndex) :
                          ItemSatisfies(predicate, C12_RowAt(rows, index))}
    IN  IF satisfying = {}
        THEN found = InvalidIndex
        ELSE /\ found \in satisfying
             /\ \A other \in satisfying \ {found} : C12_Before(found, other)

\* C12: findIndexInModel returns the index of the first row of the model, in
\* depth-first pre-order (a parent before its children, children in row order),
\* that satisfies the predicate, and the invalid index iff no row of the model
\* satisfies it.
C12_FirstInPreOrder ==
    findCall.fn = "findIndexInModel" =>
        C12_IsFirst(FilteredTreeModel, findCall.arg, findResult)

\* A search for a name that a row and a row above it both contain: it returned
\* the row above.
C12_Witness ==
    /\ findCall = [fn |-> "findIndexInModel", arg |-> ItemContainsName(<<"c">>, TRUE)]
    /\ Len(findResult) = 2
    /\ \E index \in C12_Indexes(FilteredTreeModel, InvalidIndex) :
          /\ Len(index) = 3
          /\ SubSeq(index, 1, 2) = findResult
          /\ ItemSatisfies(findCall.arg, C12_RowAt(FilteredTreeModel, index))

\* The indexes of the rows of filteredTreeModel whose name is the given name,
\* and of those whose name contains it, compared exactly when matchCase is true
\* and with case folded otherwise.
C13_WithName(name) ==
    {index \in C12_Indexes(FilteredTreeModel, InvalidIndex) :
        C11_Fold(C12_RowAt(FilteredTreeModel, index).name) = C11_Fold(name)}

C13_ContainingName(name) ==
    {index \in C12_Indexes(FilteredTreeModel, InvalidIndex) :
        LET text == C11_Fold(C12_RowAt(FilteredTreeModel, index).name)
        IN  \E p \in 0..Len(text) : StartsWith(text, p, C11_Fold(name))}

\* An index is the first of a set of indexes in pre-order.
C13_FirstOf(indexes, found) ==
    /\ found \in indexes
    /\ \A other \in indexes \ {found} : C12_Before(found, other)

\* C13: findItemByName returns the first row, in pre-order, of the filtered
\* tree whose name equals the given name if there is one, even when a row
\* before it contains the name; otherwise the first row whose name contains the
\* name; otherwise the invalid index.  The comparison is exact when matchCase is
\* true and case-folded otherwise.
C13_FullThenPartialMatch ==
    findCall.fn = "findItemByName" =>
        IF C13_WithName(findCall.arg) # {}
        THEN C13_FirstOf(C13_WithName(findCall.arg), findResult)
        ELSE IF C13_ContainingName(findCall.arg) # {}
        THEN C13_FirstOf(C13_ContainingName(findCall.arg), findResult)
        ELSE findResult = InvalidIndex

\* findItemByName("p") with private members shown: it returned property p of
\* class C, although the row of module _p comes before it and contains the
\* name.
C13_Witness ==
    /\ findCall = [fn |-> "findItemByName", arg |-> <<"p">>]
    /\ Len(findResult) = 3
    /\ C12_RowAt(FilteredTreeModel, findResult).name = <<"p">>
    /\ \E index \in C13_ContainingName(<<"p">>) :
          /\ C12_Before(index, findResult)
          /\ C12_RowAt(FilteredTreeModel, index).name = ModPrivate

\* ---- C14 ----
\* What _linkClicked must have done with a link, by the scheme of the link.
C14_LinkEffect(url, shownAfter) ==
    /\ url.scheme = "file" => opened' = [app |-> "openFile", target |-> url.path]
    /\ url.scheme \in {"http", "https"} =>
          opened' = [app |-> "browser", target |-> <<url.scheme, ":">> \o url.path]
    /\ url.scheme \notin {"file", "http", "https"} => opened' = NoOpen
    /\ url.scheme = "item" =>
          /\ seText' = <<>>
          /\ searchText' = <<>>
          /\ filterFixedString' = <<>>
          /\ IF \E item \in shownAfter : item.id = url.path
             THEN selection' \in shownAfter /\ selection'.id = url.path
             ELSE selection' = selection
    /\ url.scheme # "item" =>
          /\ seText' = seText
          /\ searchText' = searchText
          /\ filterFixedString' = filterFixedString
          /\ selection' = selection

\* C14: _linkClicked dispatches on the scheme of the link: "file" opens the path
\* in an external application, "http" and "https" open the URL in the browser,
\* "item" clears the search box and the search text of the model and then
\* selects the item with that id if the tree shows it; for every scheme but
\* "item" the search text and the selection stay as they were, and for an item
\* id that is not found the selection stays as it was.
C14_LinkDispatch ==
    [][linkCall = NoLink /\ linkCall' # NoLink =>
          \E url \in {linkCall'}, rows \in {treeModel'}, privateRegEx \in {intermediateRegEx'},
             inheritedRegEx \in {secondIntermediateRegEx'}, caseSensitivity \in {filterCaseSensitivity'} :
              C14_LinkEffect(url, ShownItems(FilteredRows(rows, privateRegEx, inheritedRegEx,
                                                          <<>>, caseSensitivity)))]_vars

\* An item link was clicked while a search text hid other rows and another row
\* was selected: the search box is empty and the item of the link is selected.
C14_Witness ==
    /\ linkCall = [scheme |-> "item", path |-> <<"m", "/", "C", "/", "q">>]
    /\ selection = [id |-> <<"m", "/", "C", "/", "q">>, error |-> ""]
    /\ seText = <<>>
    /\ searchText = <<>>
    /\ timerActive

\* ---- C15 ----
\* The places of the paragraph "Base classes:" in the HTML.
C15_Headers ==
    {k \in 1..Len(infoHtml) : infoHtml[k].tag = "p" /\ infoHtml[k].text = "Base classes:"}

\* The list items that follow place k of the HTML.
C15_ListAfter(k) ==
    LET last == CHOOSE n \in k..Len(infoHtml) :
                    /\ \A i \in (k + 1)..n : infoHtml[i].tag = "li"
                    /\ n < Len(infoHtml) => infoHtml[n + 1].tag # "li"
    IN  SubSeq(infoHtml, k + 1, last)

\* C15: for a class, the list of base classes holds every class of the method
\* resolution order but the class itself, each once, from the most distant
\* ancestor to the nearest (the order reversed), and there is no such list when
\* the order has one entry.
C15_BaseClassesList ==
    infoItem.type \in {"class", "abstract base class"} =>
        LET mro == infoItem.mro
        IN  IF Len(mro) = 1
            THEN C15_Headers = {}
            ELSE /\ Cardinality(C15_Headers) = 1
                 /\ LET list == C15_ListAfter(CHOOSE k \in C15_Headers : TRUE)
                    IN  /\ Len(list) = Len(mro) - 1
                        /\ \A i \in 1..Len(list) :
                              LET class == mro[Len(mro) + 1 - i]
                              IN  /\ list[i].text = class.qualname
                                  /\ list[i].from = class.module
                                  /\ list[i].href =
                                        <<"item", ":", class.module, "/", class.qualname>>

\* A class with three ancestors is displayed, and __subclasses__() raised.
C15_Witness ==
    /\ infoItem.type = "class"
    /\ Len(infoItem.mro) = 4
    /\ infoItem.raises
    /\ C15_Headers # {}

\* ---- C16 ----
\* The names of the top-level items of the tree model.
C16_TopLevelNames == {treeModel[i].name : i \in 1..Len(treeModel)}

\* C16: once the window is constructed, and after any check-box toggles and
\* accepted or cancelled module dialogs, each of matchCase,
\* includePrivateMembers, includeInheritedMembers and sortByType has the same
\* value in Config and in MainModel, which is the checked state of its check
\* box, and the names of the top-level items of the model are the names of
\* config.moduleNames.
C16_ConfigModelCheckBoxesAgree ==
    /\ config.matchCase = matchCase
    /\ matchCase = (checkState.matchCase = "Checked")
    /\ config.includePrivateMembers = includePrivateMembers
    /\ includePrivateMembers = (checkState.includePrivateMembers = "Checked")
    /\ config.includeInheritedMembers = includeInheritedMembers
    /\ includeInheritedMembers = (checkState.includeInheritedMembers = "Checked")
    /\ config.sortByType = sortByType
    /\ sortByType = (checkState.sortByType = "Checked")
    /\ C16_TopLevelNames = {config.moduleNames[i] : i \in 1..Len(config.moduleNames)}

\* Boxes were toggled and a dialog accepted with a module whose inspection
\* fails; the last write of the file failed.
C16_Witness ==
    /\ checkState.matchCase = "Checked"
    /\ checkState.includePrivateMembers = "Unchecked"
    /\ config.moduleNames = <<ModCyclic, ModA>>
    /\ Len(treeModel) = 3
    /\ cfgFile = InvalidFile
    /\ dialog = "closed"

====
